---- MODULE Spec2Model ----
(***************************************************************************)
(* A model of CachePhoenix's cache scanner (src/src/lib/scanner.ts):       *)
(* signature detection, the MP4 box walker, file-name parsing, the chunk   *)
(* grouper scanCacheFolder and the chunked-MP4 assembler.                  *)
(*                                                                         *)
(* Strings that the code parses (file names, Content-Type values) and the  *)
(* bytes of file bodies are sequences of character codes / byte values.    *)
(* FileType values are TLA+ strings; the JavaScript null FileType is the   *)
(* string "null"; an optional number is the empty or one-element sequence. *)
(***************************************************************************)
EXTENDS Integers, Sequences, FiniteSets, TLC

Null == "null"

Min(a, b) == IF a < b THEN a ELSE b

Max(a, b) == IF a > b THEN a ELSE b

RECURSIVE BitAnd(_, _)
\* JavaScript's a & b on non-negative operands
BitAnd(a, b) ==
  IF a = 0 \/ b = 0 THEN 0
  ELSE (a % 2) * (b % 2) + 2 * BitAnd(a \div 2, b \div 2)

\* Math.ceil(a / b) for a >= 0, b > 0
CeilDiv(a, b) == (a + b - 1) \div b

\* (b0 << 24) | (b1 << 16) | (b2 << 8) | b3, an int32: negative when b0 >= 128
Int32FromBytes(b0, b1, b2, b3) ==
  (IF b0 >= 128 THEN b0 - 256 ELSE b0) * 16777216 + b1 * 65536 + b2 * 256 + b3

\* DataView.getUint32 (big-endian) at 0-based position pos of data. The checker's
\* integers end at 2^31 - 1: the buffers of this model keep the first byte of a size
\* field below 128, and a larger one is reported as an overflow, not wrapped
GetUint32(data, pos) ==
  data[pos + 1] * 16777216 + data[pos + 2] * 65536 + data[pos + 3] * 256 + data[pos + 4]

\* Uint8Array.slice(from, to) / String.slice with 0-based bounds inside the array
Slice(data, from, to) == SubSeq(data, from + 1, Min(to, Len(data)))

RECURSIVE SumSeq(_)
SumSeq(s) == IF s = <<>> THEN 0 ELSE Head(s) + SumSeq(Tail(s))

RECURSIVE MaxSeq(_)
\* Math.max(...s) over a non-empty sequence of numbers
MaxSeq(s) == IF Len(s) = 1 THEN s[1] ELSE Max(Head(s), MaxSeq(Tail(s)))

(***************************************************************************)
(* Signature detection                                                     *)
(***************************************************************************)

\* scanner.ts SIGNATURES: a mask of <<>> is an absent mask
SIGNATURES == <<
  [bytes |-> <<137, 80, 78, 71, 13, 10, 26, 10>>, mask |-> <<>>, offset |-> 0, type |-> "png"],
  [bytes |-> <<255, 216, 255>>, mask |-> <<>>, offset |-> 0, type |-> "jpeg"],
  [bytes |-> <<71, 73, 70, 56, 55, 97>>, mask |-> <<>>, offset |-> 0, type |-> "gif"],
  [bytes |-> <<71, 73, 70, 56, 57, 97>>, mask |-> <<>>, offset |-> 0, type |-> "gif"],
  [bytes |-> <<66, 77>>, mask |-> <<>>, offset |-> 0, type |-> "bmp"],
  [bytes |-> <<73, 73, 42, 0>>, mask |-> <<>>, offset |-> 0, type |-> "tiff"],
  [bytes |-> <<77, 77, 0, 42>>, mask |-> <<>>, offset |-> 0, type |-> "tiff"],
  [bytes |-> <<0, 0, 1, 0>>, mask |-> <<>>, offset |-> 0, type |-> "ico"],
  [bytes |-> <<82, 73, 70, 70>>, mask |-> <<>>, offset |-> 0, type |-> "riff"],
  [bytes |-> <<26, 69, 223, 163>>, mask |-> <<>>, offset |-> 0, type |-> "webm_mkv"],
  [bytes |-> <<70, 76, 86, 1>>, mask |-> <<>>, offset |-> 0, type |-> "flv"],
  [bytes |-> <<71>>, mask |-> <<>>, offset |-> 0, type |-> "mpeg_ts_candidate"],
  [bytes |-> <<73, 68, 51>>, mask |-> <<>>, offset |-> 0, type |-> "mp3"],
  [bytes |-> <<255, 251>>, mask |-> <<>>, offset |-> 0, type |-> "mp3"],
  [bytes |-> <<255, 243>>, mask |-> <<>>, offset |-> 0, type |-> "mp3"],
  [bytes |-> <<255, 242>>, mask |-> <<>>, offset |-> 0, type |-> "mp3"],
  [bytes |-> <<255, 254>>, mask |-> <<>>, offset |-> 0, type |-> "mp3"],
  [bytes |-> <<79, 103, 103, 83>>, mask |-> <<>>, offset |-> 0, type |-> "ogg"],
  [bytes |-> <<102, 76, 97, 67>>, mask |-> <<>>, offset |-> 0, type |-> "flac"],
  [bytes |-> <<48, 38, 178, 117, 142, 102, 207, 17, 166, 217, 0, 170, 0, 98, 206, 108>>,
   mask |-> <<>>, offset |-> 0, type |-> "wma"] >>

\* the four-character codes the code compares against
FTYP == <<102, 116, 121, 112>>
MOOV == <<109, 111, 111, 118>>
MDAT == <<109, 100, 97, 116>>
MOOF == <<109, 111, 111, 102>>
STYP == <<115, 116, 121, 112>>
SIDX == <<115, 105, 100, 120>>

\* String.prototype.trim on a sequence of character codes below 256
IsWhiteSpace(c) == c \in {9, 10, 11, 12, 13, 32, 160}

RECURSIVE TrimLeft(_)
TrimLeft(s) == IF s # <<>> /\ IsWhiteSpace(Head(s)) THEN TrimLeft(Tail(s)) ELSE s

RECURSIVE TrimRight(_)
TrimRight(s) ==
  IF s # <<>> /\ IsWhiteSpace(s[Len(s)]) THEN TrimRight(SubSeq(s, 1, Len(s) - 1)) ELSE s

Trim(s) == TrimRight(TrimLeft(s))

\* the byte at which the second MPEG-TS sync byte is looked for
TsSyncOffset == 188

isAdtsAac(h) ==
  /\ Len(h) >= 2
  /\ h[1] = 255
  /\ BitAnd(h[2], 240) = 240
  /\ BitAnd(h[2], 6) # 0

\* a second sync byte looked for two bytes later
isMpegTs_LateSync(h) ==
  /\ Len(h) >= TsSyncOffset + 3
  /\ h[1] = 71
  /\ h[TsSyncOffset + 3] = 71

isMpegTs(h) ==
  /\ Len(h) >= TsSyncOffset + 1
  /\ h[1] = 71
  /\ h[TsSyncOffset + 1] = 71

\* the inner loop of detectFileType: does sig match header
SigMatches(header, sig) ==
  /\ Len(header) >= sig.offset + Len(sig.bytes)
  /\ \A i \in 1..Len(sig.bytes) :
        IF sig.mask # <<>>
        THEN BitAnd(header[sig.offset + i], sig.mask[i]) = sig.bytes[i]
        ELSE header[sig.offset + i] = sig.bytes[i]

RECURSIVE FirstSig(_, _)
\* index of the first matching table entry at or after k, 0 when none matches
FirstSig(header, k) ==
  IF k > Len(SIGNATURES) THEN 0
  ELSE IF SigMatches(header, SIGNATURES[k]) THEN k
  ELSE FirstSig(header, k + 1)

\* the RIFF disambiguation of detectFileType
RiffSubtype(header) ==
  IF Len(header) >= 12
  THEN LET sub == Slice(header, 8, 12)
       IN IF sub = <<87, 69, 66, 80>> THEN "webp"
          ELSE IF sub = <<65, 86, 73, 32>> THEN "avi"
          ELSE IF sub = <<87, 65, 86, 69>> THEN "wav"
          ELSE "riff_unknown"
  ELSE "riff_unknown"

\* the ISO BMFF brand switch of detectFileType; brand is already trimmed
BrandType(brand) ==
  IF brand \in {<<97, 118, 105, 102>>, <<97, 118, 105, 115>>} THEN "avif"
  ELSE IF brand \in {<<104, 101, 105, 99>>, <<104, 101, 118, 99>>,
                     <<109, 105, 102, 49>>, <<109, 115, 102, 49>>} THEN "heic"
  ELSE IF brand \in {<<77, 52, 65, 32>>, <<109, 52, 97, 32>>,
                     <<77, 52, 66, 32>>, <<77, 52, 80, 32>>} THEN "m4a"
  ELSE IF brand = <<113, 116, 32, 32>> THEN "mov"
  ELSE "mp4_complete"

\* detectFileType after the signature table found nothing
DetectUntabled(header) ==
  LET boxSize == Int32FromBytes(header[1], header[2], header[3], header[4])
      boxType == Slice(header, 4, 8)
  IN IF isAdtsAac(header) THEN "aac"
     ELSE IF Len(header) >= 12 /\ boxType = FTYP /\ boxSize >= 8 /\ boxSize <= 512
       THEN BrandType(Trim(Slice(header, 8, 12)))
     ELSE IF /\ Len(header) >= 8
             /\ boxSize >= 8
             /\ boxSize <= 50000000
             /\ boxType \in {STYP, MOOF, SIDX, MDAT}
       THEN "mp4_fragment"
     ELSE IF Len(header) >= 4 /\ Slice(header, 0, 4) = <<31, 67, 182, 117>>
       THEN "webm_continuation"
     ELSE Null

detectFileType(header) ==
  LET k == FirstSig(header, 1)
  IN IF k > 0
     THEN LET sig == SIGNATURES[k]
          IN IF sig.type = "riff" THEN RiffSubtype(header)
             ELSE IF sig.type = "mpeg_ts_candidate"
               THEN (IF isMpegTs(header) THEN "mpeg_ts" ELSE Null)
             ELSE sig.type
     ELSE DetectUntabled(header)

(***************************************************************************)
(* MP4 box walker                                                          *)
(***************************************************************************)

CONTAINER_BOXES == {
  MOOV, <<116, 114, 97, 107>>, <<109, 100, 105, 97>>, <<109, 105, 110, 102>>,
  <<115, 116, 98, 108>>, <<101, 100, 116, 115>>, <<109, 118, 101, 120>>,
  <<100, 105, 110, 102>>, <<117, 100, 116, 97>>, MOOF, <<116, 114, 97, 102>>,
  <<115, 105, 110, 102>>, <<115, 99, 104, 105>> }

\* a type test that lets every four bytes pass
IsPrintableType_Any(t) == Len(t) = 4

\* the test /^[\x20-\x7e]{4}$/ on the four type bytes
IsPrintableType(t) == Len(t) = 4 /\ \A i \in 1..4 : t[i] >= 32 /\ t[i] <= 126

RECURSIVE parseMP4Boxes(_, _, _)
\* the boxes the while loop collects from position pos (0-based) up to end
parseMP4Boxes(data, pos, end) ==
  IF ~(pos < end - 7) THEN <<>>
  ELSE
    LET boxSize == GetUint32(data, pos)
        boxType == Slice(data, pos + 4, pos + 8)
        extended == boxSize = 1
        actualSize == IF extended
                        THEN GetUint32(data, pos + 8) * 65536 * 65536 + GetUint32(data, pos + 12)
                      ELSE IF boxSize = 0 THEN end - pos
                      ELSE boxSize
        headerSize == IF extended THEN 16 ELSE 8
    IN IF ~IsPrintableType(boxType) THEN <<>>
       ELSE IF extended /\ pos + 16 > end THEN <<>>
       ELSE IF actualSize < 8 THEN <<>>
       ELSE
         LET childEnd == Min(pos + actualSize, end)
             box == [offset |-> pos, size |-> actualSize, boxType |-> boxType,
                     children |-> IF boxType \in CONTAINER_BOXES
                                    THEN parseMP4Boxes(data, pos + headerSize, childEnd)
                                    ELSE <<>>]
         IN <<box>> \o parseMP4Boxes(data, pos + actualSize, end)

\* boxes.some((b) => b.boxType === t)
HasBox(boxes, t) == \E i \in 1..Len(boxes) : boxes[i].boxType = t

\* boxes.find((b) => b.boxType === t), as an empty or one-element sequence
FindBox(boxes, t) ==
  IF HasBox(boxes, t)
  THEN <<boxes[CHOOSE i \in 1..Len(boxes) :
                 boxes[i].boxType = t /\ \A j \in 1..(i - 1) : boxes[j].boxType # t]>>
  ELSE <<>>

\* the moov+mdat refinement applied to a body detected as MP4
RefineMP4(fullData) ==
  LET boxes == parseMP4Boxes(fullData, 0, Len(fullData))
  IN IF HasBox(boxes, MOOV) /\ HasBox(boxes, MDAT) THEN "mp4_complete" ELSE "mp4_header_only"

\* the test fileType === "mp4_complete" || "mp4_header_only" || "mp4_chunked"
IsMP4Variant(fileType) == fileType \in {"mp4_complete", "mp4_header_only", "mp4_chunked"}

(***************************************************************************)
(* File-name parsing                                                       *)
(***************************************************************************)

\* value of a hexadecimal digit character, -1 for any other character
HexDigitValue(c) ==
  IF c >= 48 /\ c <= 57 THEN c - 48
  ELSE IF c >= 97 /\ c <= 102 THEN c - 87
  ELSE IF c >= 65 /\ c <= 70 THEN c - 55
  ELSE -1

RECURSIVE HexPrefixLen(_)
\* length of the longest prefix of s made of hexadecimal digits
HexPrefixLen(s) ==
  IF s # <<>> /\ HexDigitValue(Head(s)) >= 0 THEN 1 + HexPrefixLen(Tail(s)) ELSE 0

RECURSIVE HexValue(_)
\* the number a sequence of hexadecimal digits denotes
HexValue(s) ==
  IF s = <<>> THEN 0 ELSE 16 * HexValue(SubSeq(s, 1, Len(s) - 1)) + HexDigitValue(s[Len(s)])

\* parseInt: an optional sign is skipped
StripSign(t) == IF t # <<>> /\ t[1] \in {43, 45} THEN Tail(t) ELSE t

\* parseInt with radix 16: an optional 0x or 0X is skipped
StripRadixPrefix(u) ==
  IF Len(u) >= 2 /\ u[1] = 48 /\ u[2] \in {88, 120} THEN SubSeq(u, 3, Len(u)) ELSE u

\* parseInt: the value of the first n digits of v, NaN (<<>>) when n = 0
SignedHexPrefix(v, n, neg) ==
  IF n = 0 THEN <<>> ELSE <<(IF neg THEN -1 ELSE 1) * HexValue(SubSeq(v, 1, n))>>

\* parseInt after the leading white space is gone
ParseTrimmed16(t, v) == SignedHexPrefix(v, HexPrefixLen(v), t # <<>> /\ t[1] = 45)

\* JavaScript parseInt(s, 16): <<>> is NaN
ParseInt16(s) == ParseTrimmed16(TrimLeft(s), StripRadixPrefix(StripSign(TrimLeft(s))))

\* parseCacheHex: <<>> is null
parseCacheHex(name) ==
  IF Len(name) = 8 /\ SubSeq(name, 1, 2) = <<102, 95>>
  THEN ParseInt16(SubSeq(name, 3, 8))
  ELSE <<>>

IsLowerHexChar(c) == (c >= 48 /\ c <= 57) \/ (c >= 97 /\ c <= 102)

\* parseSimpleCacheHash: <<>> is null, else <<[hash, stream]>>
parseSimpleCacheHash(name) ==
  IF /\ Len(name) = 18
     /\ \A i \in 1..16 : IsLowerHexChar(name[i])
     /\ name[17] = 95
     /\ name[18] \in {48, 49, 115}
  THEN <<[hash |-> SubSeq(name, 1, 16), stream |-> name[18]]>>
  ELSE <<>>

(***************************************************************************)
(* Content-Type fallback                                                   *)
(***************************************************************************)

CONTENT_TYPE_MAP == <<
  [key |-> <<118, 105, 100, 101, 111, 47, 109, 112, 52>>, type |-> "mp4_complete"],
  [key |-> <<118, 105, 100, 101, 111, 47, 119, 101, 98, 109>>, type |-> "webm_mkv"],
  [key |-> <<118, 105, 100, 101, 111, 47, 120, 45, 109, 97, 116, 114, 111, 115, 107, 97>>,
   type |-> "webm_mkv"],
  [key |-> <<118, 105, 100, 101, 111, 47, 120, 45, 102, 108, 118>>, type |-> "flv"],
  [key |-> <<118, 105, 100, 101, 111, 47, 120, 45, 109, 115, 118, 105, 100, 101, 111>>,
   type |-> "avi"],
  [key |-> <<118, 105, 100, 101, 111, 47, 113, 117, 105, 99, 107, 116, 105, 109, 101>>,
   type |-> "mov"],
  [key |-> <<118, 105, 100, 101, 111, 47, 109, 112, 50, 116>>, type |-> "mpeg_ts"],
  [key |-> <<97, 117, 100, 105, 111, 47, 109, 112, 101, 103>>, type |-> "mp3"],
  [key |-> <<97, 117, 100, 105, 111, 47, 109, 112, 51>>, type |-> "mp3"],
  [key |-> <<97, 117, 100, 105, 111, 47, 97, 97, 99>>, type |-> "aac"],
  [key |-> <<97, 117, 100, 105, 111, 47, 111, 103, 103>>, type |-> "ogg"],
  [key |-> <<97, 117, 100, 105, 111, 47, 102, 108, 97, 99>>, type |-> "flac"],
  [key |-> <<97, 117, 100, 105, 111, 47, 119, 97, 118>>, type |-> "wav"],
  [key |-> <<97, 117, 100, 105, 111, 47, 120, 45, 119, 97, 118>>, type |-> "wav"],
  [key |-> <<97, 117, 100, 105, 111, 47, 109, 112, 52>>, type |-> "m4a"],
  [key |-> <<97, 117, 100, 105, 111, 47, 120, 45, 109, 52, 97>>, type |-> "m4a"],
  [key |-> <<97, 117, 100, 105, 111, 47, 120, 45, 109, 115, 45, 119, 109, 97>>, type |-> "wma"],
  [key |-> <<105, 109, 97, 103, 101, 47, 112, 110, 103>>, type |-> "png"],
  [key |-> <<105, 109, 97, 103, 101, 47, 106, 112, 101, 103>>, type |-> "jpeg"],
  [key |-> <<105, 109, 97, 103, 101, 47, 103, 105, 102>>, type |-> "gif"],
  [key |-> <<105, 109, 97, 103, 101, 47, 119, 101, 98, 112>>, type |-> "webp"],
  [key |-> <<105, 109, 97, 103, 101, 47, 98, 109, 112>>, type |-> "bmp"],
  [key |-> <<105, 109, 97, 103, 101, 47, 116, 105, 102, 102>>, type |-> "tiff"],
  [key |-> <<105, 109, 97, 103, 101, 47, 120, 45, 105, 99, 111, 110>>, type |-> "ico"],
  [key |-> <<105, 109, 97, 103, 101, 47, 118, 110, 100, 46, 109, 105, 99, 114, 111, 115,
             111, 102, 116, 46, 105, 99, 111, 110>>, type |-> "ico"],
  [key |-> <<105, 109, 97, 103, 101, 47, 97, 118, 105, 102>>, type |-> "avif"],
  [key |-> <<105, 109, 97, 103, 101, 47, 104, 101, 105, 99>>, type |-> "heic"],
  [key |-> <<105, 109, 97, 103, 101, 47, 104, 101, 105, 102>>, type |-> "heic"] >>

\* CONTENT_TYPE_MAP[mime] ?? null
mimeToFileType(mime) ==
  IF \E i \in 1..Len(CONTENT_TYPE_MAP) : CONTENT_TYPE_MAP[i].key = mime
  THEN CONTENT_TYPE_MAP[CHOOSE i \in 1..Len(CONTENT_TYPE_MAP) : CONTENT_TYPE_MAP[i].key = mime].type
  ELSE Null

\* String.prototype.toLowerCase on character codes below 128
ToLowerCase(s) ==
  [i \in 1..Len(s) |->
     IF (s[i] >= 65 /\ s[i] <= 90) \/ (s[i] >= 192 /\ s[i] <= 222 /\ s[i] # 215)
     THEN s[i] + 32 ELSE s[i]]

RECURSIVE BeforeSemicolon(_)
\* s.split(";")[0]
BeforeSemicolon(s) ==
  IF s = <<>> \/ Head(s) = 59 THEN <<>> ELSE <<Head(s)>> \o BeforeSemicolon(Tail(s))

\* contentType.toLowerCase().split(";")[0].trim()
NormalizeContentType(contentType) == Trim(BeforeSemicolon(ToLowerCase(contentType)))

\* ctFileType === "mp4_complete" || ctFileType.startsWith("mp4")
IsMP4ContentKind(ctFileType) ==
  ctFileType \in {"mp4_complete", "mp4_chunked", "mp4_header_only", "mp4_fragment"}

\* utils.ts getMediaCategory
getMediaCategory(fileType) ==
  IF fileType \in {"png", "jpeg", "gif", "webp", "bmp", "tiff", "ico", "avif", "heic"}
    THEN "image"
  ELSE IF fileType \in {"mp4_complete", "mp4_chunked", "mp4_header_only", "webm_mkv", "avi",
                        "flv", "mpeg_ts", "wmv", "mov", "mp4_fragment", "webm_continuation"}
    THEN "video"
  ELSE IF fileType \in {"mp3", "aac", "ogg", "flac", "wav", "opus", "wma", "m4a"}
    THEN "audio"
  ELSE "other"

(***************************************************************************)
(* The cache directory: what the backend commands return                   *)
(***************************************************************************)

\* how many catalogue files a directory takes besides the run of chunks
MaxPick == 3

\* how many unidentified chunks f_000011, f_000012, ... may follow f_000010
MaxRun == 6

\* file bodies, as read_file_bytes / read_sparse_cache_file return them
JpegBody == <<255, 216, 255, 224, 0, 16, 74, 70, 73, 70>>
ShortJpegBody == <<255, 216, 255, 224, 0>>
EbmlBody == <<26, 69, 223, 163, 1, 0, 0, 0, 0, 0>>
ClusterBody == <<31, 67, 182, 117, 1, 0, 0, 0, 0, 0>>
RawBody == <<1, 2, 3, 4, 5, 6, 7, 8, 9, 10>>
MoofBody == <<0, 0, 0, 16>> \o MOOF \o <<0, 0, 0, 0, 0, 0, 0, 0>>
FtypBox == <<0, 0, 0, 16>> \o FTYP \o <<105, 115, 111, 109, 0, 0, 2, 0>>
\* ftyp, then an mdat of declared size 0 (runs to the end of the file)
Mp4OpenMdatBody == FtypBox \o <<0, 0, 0, 0>> \o MDAT \o <<9, 9, 9, 9>>
\* ftyp, then a partial mdat of declared size 5 MiB
Mp4PartialMdatBody == FtypBox \o <<0, 80, 0, 0>> \o MDAT \o <<9, 9, 9, 9>>
\* ftyp, a whole 8-byte mdat, then a free box: the moov is elsewhere
Mp4ClosedMdatBody == FtypBox \o <<0, 0, 0, 8>> \o MDAT \o <<0, 0, 0, 8, 102, 114, 101, 101>>
\* ftyp and moov but no mdat
Mp4NoMdatBody == FtypBox \o <<0, 0, 0, 8>> \o MOOV
\* ftyp, moov and mdat
Mp4CompleteBody == FtypBox \o <<0, 0, 0, 8>> \o MOOV \o <<0, 0, 0, 8>> \o MDAT

\* Content-Type values, as read_file_content_type returns them; <<>>: the command fails
CtPng == <<105, 109, 97, 103, 101, 47, 112, 110, 103>>
CtMp4Params == <<86, 105, 100, 101, 111, 47, 77, 80, 52, 59, 32, 99, 111, 100, 101, 99, 115,
                 61, 97, 118, 99, 49>>
CtHtml == <<116, 101, 120, 116, 47, 104, 116, 109, 108>>

\* the name f_0000xy
BlockName(x, y) == <<102, 95, 48, 48, 48, 48, x, y>>

\* the name cccccccccccccccc_t
SimpleName(c, t) == [i \in 1..16 |-> c] \o <<95, t>>

CatFile(name, body, size, mtime, ct, sparseSize) ==
  [name |-> name, body |-> body, size |-> size, modified_at |-> mtime,
   contentType |-> ct, sparseSize |-> sparseSize]

\* the files a directory may hold besides the run
Catalogue == <<
  CatFile(BlockName(49, 48), Mp4OpenMdatBody, 28, 5, <<>>, 0),       \* f_000010
  CatFile(BlockName(49, 56), JpegBody, 10, 7, <<>>, 0),              \* f_000018
  CatFile(BlockName(49, 97), MoofBody, 16, 3, <<>>, 0),              \* f_00001a
  CatFile(BlockName(49, 65), ClusterBody, 10, 4, <<>>, 0),           \* f_00001A
  CatFile(BlockName(49, 99), Mp4ClosedMdatBody, 32, 6, <<>>, 0),     \* f_00001c
  CatFile(BlockName(49, 102), RawBody, 10, 2, <<>>, 0),              \* f_00001f
  CatFile(BlockName(50, 48), RawBody, 10, 9, <<>>, 0),               \* f_000020
  CatFile(BlockName(51, 48), EbmlBody, 10, 8, <<>>, 0),              \* f_000030
  CatFile(BlockName(51, 49), ClusterBody, 10, 1, <<>>, 0),           \* f_000031
  CatFile(BlockName(48, 56), Mp4CompleteBody, 32, 3, <<>>, 0),       \* f_000008
  CatFile(BlockName(48, 57), Mp4NoMdatBody, 24, 4, <<>>, 0),         \* f_000009
  CatFile(BlockName(48, 99), Mp4PartialMdatBody, 28, 4, <<>>, 0),    \* f_00000c
  CatFile(<<100, 97, 116, 97, 95, 49>>, RawBody, 10, 1, <<>>, 0),    \* data_1
  CatFile(SimpleName(97, 48), JpegBody, 60, 5, CtPng, 0),            \* a..a_0
  CatFile(SimpleName(97, 49), JpegBody, 40, 5, CtPng, 0),            \* a..a_1
  CatFile(SimpleName(97, 115), Mp4CompleteBody, 50, 6, <<>>, 32),    \* a..a_s
  CatFile(SimpleName(98, 48), RawBody, 60, 2, CtMp4Params, 0),       \* b..b_0
  CatFile(SimpleName(98, 115), RawBody, 50, 3, <<>>, 10),            \* b..b_s
  CatFile(SimpleName(99, 48), JpegBody, 60, 2, CtPng, 0),            \* c..c_0
  CatFile(SimpleName(99, 115), RawBody, 50, 3, <<>>, 7),             \* c..c_s
  CatFile(SimpleName(100, 48), JpegBody, 60, 2, CtHtml, 0),          \* d..d_0
  CatFile(SimpleName(100, 115), ShortJpegBody, 45, 3, <<>>, 5),      \* d..d_s
  CatFile(SimpleName(101, 48), RawBody, 60, 2, <<>>, 0),             \* e..e_0
  CatFile(SimpleName(101, 115), EbmlBody, 0, 3, <<>>, 10),           \* e..e_s, empty on disk
  CatFile(SimpleName(102, 115), EbmlBody, 50, 3, <<>>, 70) >>        \* f..f_s

\* the j-th chunk of the run: f_00001j, unidentified
RunFile(j) == CatFile(BlockName(49, 48 + j), RawBody, 10, 10 + j, <<>>, 0)

\* every file a directory may hold
AllCatFiles == {Catalogue[i] : i \in 1..Len(Catalogue)} \cup {RunFile(j) : j \in 1..MaxRun}

CatOf(name) == CHOOSE c \in AllCatFiles : c.name = name

\* the CacheFileEntry list_cache_files returns for a file
EntryOf(c) == [name |-> c.name, size |-> c.size, modified_at |-> c.modified_at]

\* read_file_bytes and read_sparse_cache_file: the whole body
ReadFileBytes(file) == CatOf(file.name).body

\* read_file_header and read_sparse_cache_header: the first size bytes of the body
ReadFileHeader(file, size) == SubSeq(ReadFileBytes(file), 1, Min(size, Len(ReadFileBytes(file))))

\* get_sparse_cache_size
GetSparseCacheSize(file) == CatOf(file.name).sparseSize

\* read_file_content_type
ReadFileContentType(file) == CatOf(file.name).contentType

\* the size argument of the header reads
HeaderReadSize == 256

(***************************************************************************)
(* scanCacheFolder: detection of one Simple Cache group or Blockfile file  *)
(***************************************************************************)

\* a slot assignment that takes the _1 stream for the body
SlotFile_SideDataAsBody(entry, stream, file) ==
  IF stream = 48 \/ stream = 49 THEN [entry EXCEPT !.file0 = <<file>>]
  ELSE IF stream = 115 THEN [entry EXCEPT !.fileS = <<file>>]
  ELSE entry

\* the slot assignment of Phase 1 for one Simple Cache file
SlotFile(entry, stream, file) ==
  IF stream = 48 THEN [entry EXCEPT !.file0 = <<file>>]
  ELSE IF stream = 49 THEN [entry EXCEPT !.file1 = <<file>>]
  ELSE IF stream = 115 THEN [entry EXCEPT !.fileS = <<file>>]
  ELSE entry

\* simpleCacheMap.get(hash) || {}, then the slot, then simpleCacheMap.set: the map is
\* a sequence in insertion order
MapPut(map, hash, stream, file) ==
  IF \E k \in 1..Len(map) : map[k].hash = hash
  THEN [k \in 1..Len(map) |->
          IF map[k].hash = hash THEN SlotFile(map[k], stream, file) ELSE map[k]]
  ELSE Append(map, SlotFile([hash |-> hash, file0 |-> <<>>, file1 |-> <<>>, fileS |-> <<>>],
                            stream, file))

RECURSIVE PartitionSimple(_, _)
\* Phase 1, the Simple Cache side: the map after the listing fs was walked
PartitionSimple(fs, map) ==
  IF fs = <<>> THEN map
  ELSE LET parsed == parseSimpleCacheHash(Head(fs).name)
       IN PartitionSimple(Tail(fs),
            IF parsed # <<>> THEN MapPut(map, parsed[1].hash, parsed[1].stream, Head(fs))
            ELSE map)

\* Phase 1, the Blockfile side
PartitionBlockfile(fs) == SelectSeq(fs, LAMBDA f : parseSimpleCacheHash(f.name) = <<>>)

\* a kind taken from the Content-Type before the signature
BodyKind_ContentTypeFirst(sigType, ctType, fullData) ==
  IF ctType # Null
  THEN (IF IsMP4ContentKind(ctType) THEN RefineMP4(fullData) ELSE ctType)
  ELSE IF sigType # Null
  THEN (IF IsMP4Variant(sigType) THEN RefineMP4(fullData) ELSE sigType)
  ELSE Null

\* the kind given to a body: from its signature when there is one (an MP4 signature
\* refined by the box walk), else from the Content-Type kind, else null
BodyKind(sigType, ctType, fullData) ==
  IF sigType # Null
  THEN (IF IsMP4Variant(sigType) THEN RefineMP4(fullData) ELSE sigType)
  ELSE IF ctType # Null
  THEN (IF IsMP4ContentKind(ctType) THEN RefineMP4(fullData) ELSE ctType)
  ELSE Null

\* the kind mapped from the Content-Type of the _0 file, null without a _0 file
ContentTypeKind(file0) ==
  IF file0 = <<>> THEN Null
  ELSE mimeToFileType(NormalizeContentType(ReadFileContentType(file0[1])))

\* the size reported for a sparse file: the reassembled length for MP4, else
\* get_sparse_cache_size with its sanity fallback
SparseEntrySize(fileS, readsAll) ==
  IF readsAll THEN Len(ReadFileBytes(fileS))
  ELSE LET reported == GetSparseCacheSize(fileS)
           sparseSize == IF reported <= 0 \/ reported < fileS.size
                           THEN Len(ReadFileBytes(fileS)) ELSE reported
       IN IF sparseSize > 0 THEN sparseSize ELSE fileS.size

\* a Strategy 1 that never handles the sparse stream
SparseStrategy_Unhandled(fileS, file0, readOk) == <<>>

\* Strategy 1: what is pushed to standaloneFiles for the _s file; <<>> when the
\* sparse stream was not handled (readOk: no backend command of the try block failed)
SparseStrategy(fileS, file0, readOk) ==
  IF ~readOk THEN <<>>
  ELSE LET sparseHeader == ReadFileHeader(fileS, HeaderReadSize)
           sparseType == detectFileType(sparseHeader)
           ctType == ContentTypeKind(file0)
           kind == BodyKind(sparseType, ctType, ReadFileBytes(fileS))
           readsAll == IF sparseType # Null THEN IsMP4Variant(sparseType)
                       ELSE IsMP4ContentKind(ctType)
       IN IF ~(Len(sparseHeader) > 8) \/ kind = Null THEN <<>>
          ELSE <<[file |-> [fileS EXCEPT !.size = SparseEntrySize(fileS, readsAll)],
                  fileType |-> kind]>>

\* Strategy 2: what is pushed to standaloneFiles for the _0 file
BodyStrategy(file0) ==
  LET header == ReadFileHeader(file0, HeaderReadSize)
      kind == BodyKind(detectFileType(header), ContentTypeKind(<<file0>>),
                       ReadFileBytes(file0))
  IN IF kind = Null THEN <<>> ELSE <<[file |-> file0, fileType |-> kind]>>

\* does the group reach Strategy 2's reads (which are outside any try block)
ReachesBodyStrategy(group, readOk) ==
  IF group.file0 = <<>> THEN FALSE
  ELSE IF group.fileS = <<>> THEN TRUE
  ELSE IF group.fileS[1].size <= 0 THEN TRUE
  ELSE SparseStrategy(group.fileS[1], group.file0, readOk) = <<>>

\* one iteration of the Phase 2a loop: the entries pushed to standaloneFiles
DetectGroup(group, readOk) ==
  IF group.file0 = <<>> /\ group.fileS = <<>> THEN <<>>
  ELSE LET sparse == IF group.fileS # <<>> /\ group.fileS[1].size > 0
                       THEN SparseStrategy(group.fileS[1], group.file0, readOk) ELSE <<>>
       IN IF sparse # <<>> THEN sparse
          ELSE IF group.file0 = <<>> THEN <<>>
          ELSE BodyStrategy(group.file0[1])

\* Phase 2b for one Blockfile file: where it is pushed
BlockfileClass(file) ==
  LET fileType == detectFileType(ReadFileHeader(file, HeaderReadSize))
  IN IF IsMP4Variant(fileType)
     THEN (IF RefineMP4(ReadFileBytes(file)) = "mp4_complete" THEN "standalone" ELSE "mp4Header")
     ELSE IF fileType # Null THEN "standalone"
     ELSE "dataChunk"

\* the fileType pushed with a Blockfile file that goes to standaloneFiles
BlockfileStandaloneType(file) ==
  LET fileType == detectFileType(ReadFileHeader(file, HeaderReadSize))
  IN IF IsMP4Variant(fileType) THEN "mp4_complete" ELSE fileType

(***************************************************************************)
(* assembleChunkedMP4                                                      *)
(***************************************************************************)

CHUNK_BLOCK_SIZE == 1048576

\* mdatBox.offset + mdatBox.size >= headerData.length
MdatReachedEnd(mdatBox, dataLen) == mdatBox.offset + mdatBox.size >= dataLen

\* maxChunks of assembleChunkedMP4
MaxChunks(mdatBox, dataLen) ==
  IF MdatReachedEnd(mdatBox, dataLen)
  THEN CeilDiv(mdatBox.size - (dataLen - mdatBox.offset), CHUNK_BLOCK_SIZE) + 5
  ELSE CeilDiv(mdatBox.size + dataLen, CHUNK_BLOCK_SIZE) + 5

\* a hex window four times maxChunks wide
HexRange_Wide(mdatBox, dataLen) == MaxChunks(mdatBox, dataLen) * 4

\* hexRange of assembleChunkedMP4
HexRange(mdatBox, dataLen) ==
  IF MdatReachedEnd(mdatBox, dataLen)
  THEN MaxChunks(mdatBox, dataLen) + 10
  ELSE MaxChunks(mdatBox, dataLen) * 2

\* the filter of assembleChunkedMP4 on a candidate's parsed hex
InHexWindow(hex, headerHex, hexRange) ==
  hex # <<>> /\ hex[1] > headerHex /\ hex[1] <= headerHex + hexRange

RECURSIVE InsertByHex(_, _)
InsertByHex(sorted, e) ==
  IF sorted = <<>> THEN <<e>>
  ELSE IF e.hex < Head(sorted).hex THEN <<e>> \o sorted
  ELSE <<Head(sorted)>> \o InsertByHex(Tail(sorted), e)

\* entries left in the order they were gathered
SortByHex_Unsorted(s) == s

RECURSIVE SortByHex(_)
\* Array.prototype.sort((a, b) => a.hex - b.hex): ascending and stable
SortByHex(s) ==
  IF s = <<>> THEN <<>>
  ELSE InsertByHex(SortByHex(SubSeq(s, 1, Len(s) - 1)), s[Len(s)])

\* a loop that never stops at maxChunks
TakeChunks_All(sorted, maxChunks) == [k \in 1..Len(sorted) |-> sorted[k].file]

\* the loop that fills collected: the first maxChunks files of sorted
TakeChunks(sorted, maxChunks) ==
  [k \in 1..Min(Len(sorted), maxChunks) |-> sorted[k].file]

\* the header put after the chunks
AllFiles_HeaderLast(headerFile, collected) == collected \o <<headerFile>>

\* [headerFile, ...collected]
AllFiles(headerFile, collected) == <<headerFile>> \o collected

\* a total that counts the first file only
TotalSize_FirstOnly(fs) == fs[1].size

\* files.reduce((sum, f) => sum + f.size, 0)
TotalSize(fs) == SumSeq([k \in 1..Len(fs) |-> fs[k].size])

\* the resource literal the code builds
Resource(resourceType, category, fs, headerFile, totalSize, displayName, modifiedAt) ==
  [resourceType |-> resourceType, mediaCategory |-> category, files |-> fs,
   headerFile |-> headerFile, totalSize |-> totalSize, displayName |-> displayName,
   modifiedAt |-> modifiedAt, selected |-> FALSE]

\* the candidates of dataChunks whose hex lies in the window, with their hex
WindowChunks(dataChunks, headerHex, hexRange) ==
  LET inWindow == SelectSeq(dataChunks,
                    LAMBDA f : InHexWindow(parseCacheHex(f.name), headerHex, hexRange))
  IN [k \in 1..Len(inWindow) |->
        [file |-> inWindow[k], hex |-> parseCacheHex(inWindow[k].name)[1]]]

\* the resource built from the header and the files collected for it
ChunkedResource(headerFile, collected) ==
  IF Len(collected) = 0
  THEN <<Resource("mp4_header_only", "video", <<headerFile>>, headerFile.name,
                  headerFile.size, <<>>, <<>>)>>
  ELSE <<Resource("mp4_chunked", "video", AllFiles(headerFile, collected),
                  headerFile.name, TotalSize(AllFiles(headerFile, collected)),
                  <<>>, <<>>)>>

\* assembleChunkedMP4 from the point where mdatBox and headerHex are known
AssembleFrom(headerFile, dataLen, mdat, headerHex, dataChunks) ==
  IF mdat = <<>> \/ headerHex = <<>> THEN <<>>
  ELSE ChunkedResource(headerFile,
         TakeChunks(SortByHex(WindowChunks(dataChunks, headerHex[1],
                                           HexRange(mdat[1], dataLen))),
                    MaxChunks(mdat[1], dataLen)))

\* assembleChunkedMP4: <<>> is null; displayName and modifiedAt are set by the caller
assembleChunkedMP4(headerFile, headerData, dataChunks) ==
  AssembleFrom(headerFile, Len(headerData),
               FindBox(parseMP4Boxes(headerData, 0, Len(headerData)), MDAT),
               parseCacheHex(headerFile.name), dataChunks)

(***************************************************************************)
(* scanCacheFolder: grouping (synchronous, from Phase 3 to the tail)       *)
(***************************************************************************)

\* the hex gap beyond which a non-MP4 group stops collecting
GroupHexGap == 500

AUDIO_HEADER_TYPES == {"mp3", "ogg", "aac", "flac", "wav", "opus", "wma", "m4a"}

VIDEO_HEADER_TYPES == {"webm_mkv", "avi", "flv", "mpeg_ts", "mov"}

isMediaHeader(ft) ==
  IF ft = Null THEN FALSE
  ELSE IF ft = "mp4_header_only" THEN TRUE
  ELSE ft \in AUDIO_HEADER_TYPES \/ ft \in VIDEO_HEADER_TYPES

isContinuationChunk(ft) ==
  ft = Null \/ ft = "mp4_fragment" \/ ft = "webm_continuation" \/ ft = "media_data_chunk"

\* does an entry of standaloneFiles go to trueStandalone (else to blockfileGroupPool)
IsTrueStandalone(entry) ==
  \/ parseCacheHex(entry.file.name) = <<>>
  \/ ~(entry.fileType = "mp4_fragment" \/ entry.fileType = "webm_continuation")

\* Math.max(...files.map(f => f.modified_at || 0))
MaxModifiedAt(fs) == MaxSeq([k \in 1..Len(fs) |-> fs[k].modified_at])

\* the display names, kept as their parts: label, number, "(chunked)" suffix
DisplayName(label, n, chunked) == [label |-> label, n |-> n, chunked |-> chunked]

CategoryLabel(category) ==
  IF category = "image" THEN "Image"
  ELSE IF category = "video" THEN "Video"
  ELSE IF category = "audio" THEN "Audio"
  ELSE "File"

\* the resources emitted for trueStandalone; resourceIdx counts from 1
StandaloneResources(trueStandalone) ==
  [k \in 1..Len(trueStandalone) |->
     LET file == trueStandalone[k].file
         fileType == trueStandalone[k].fileType
     IN Resource(fileType, getMediaCategory(fileType), <<file>>, <<>>, file.size,
                 DisplayName(CategoryLabel(getMediaCategory(fileType)), k, FALSE),
                 file.modified_at)]

\* blockfileEntries before the sort: MP4 headers, unidentified chunks, pool entries
UnsortedEntries(mp4Headers, dataChunks, pool) ==
  LET hs == SelectSeq(mp4Headers, LAMBDA h : parseCacheHex(h.file.name) # <<>>)
      ds == SelectSeq(dataChunks, LAMBDA f : parseCacheHex(f.name) # <<>>)
  IN [k \in 1..Len(hs) |->
        [hex |-> parseCacheHex(hs[k].file.name)[1], file |-> hs[k].file,
         fileType |-> "mp4_header_only", mp4Data |-> hs[k].data]]
     \o [k \in 1..Len(ds) |->
        [hex |-> parseCacheHex(ds[k].name)[1], file |-> ds[k], fileType |-> Null,
         mp4Data |-> <<>>]]
     \o [k \in 1..Len(pool) |->
        [hex |-> parseCacheHex(pool[k].file.name)[1], file |-> pool[k].file,
         fileType |-> pool[k].fileType, mp4Data |-> <<>>]]

\* the files of the unclaimed continuation entries, in entry order
AvailableChunks(entries, claimed) ==
  LET idx == SelectSeq([k \in 1..Len(entries) |-> k],
                       LAMBDA k : k \notin claimed /\ isContinuationChunk(entries[k].fileType))
  IN [k \in 1..Len(idx) |-> entries[idx[k]].file]

\* a walk that claims nothing after a chunked resource
ClaimUsed_Nothing(entries, claimed, resource) == claimed

\* the entries claimed by name after an mp4_chunked resource was emitted
ClaimUsed(entries, claimed, resource) ==
  claimed \cup {j \in 1..Len(entries) :
                  \E k \in 1..Len(resource.files) : resource.files[k].name = entries[j].file.name}

\* what the MP4 branch pushes once assembleChunkedMP4 returned resource
EmitMP4(entries, entry, st, resource, idx) ==
  IF resource # <<>> /\ Len(resource[1].files) > 1
  THEN [claimed |-> ClaimUsed(entries, st.claimed, resource[1]),
        resourceIdx |-> idx,
        resources |-> Append(st.resources,
           [resource[1] EXCEPT !.displayName = DisplayName("Video", idx, TRUE),
                               !.modifiedAt = MaxModifiedAt(resource[1].files)])]
  ELSE LET fallbackFiles == IF resource # <<>> THEN resource[1].files ELSE <<entry.file>>
       IN [claimed |-> st.claimed,
           resourceIdx |-> idx,
           resources |-> Append(st.resources,
              Resource("mp4_header_only", "video", fallbackFiles, entry.file.name,
                       TotalSize(fallbackFiles), DisplayName("Video", idx, FALSE),
                       entry.file.modified_at))]

\* the MP4 branch of the walk for the header at index i (already claimed)
VisitMP4Header(entries, i, st) ==
  EmitMP4(entries, entries[i], st,
          assembleChunkedMP4(entries[i].file, entries[i].mp4Data,
                             AvailableChunks(entries, st.claimed)),
          st.resourceIdx + 1)

RECURSIVE CollectGroup(_, _, _, _)
\* the inner loop of the non-MP4 branch from index j: [claimed, groupFiles]
CollectGroup(entries, j, headerHex, acc) ==
  IF j > Len(entries) THEN acc
  ELSE IF j \in acc.claimed THEN CollectGroup(entries, j + 1, headerHex, acc)
  ELSE IF isMediaHeader(entries[j].fileType) THEN acc
  ELSE IF entries[j].hex - headerHex > GroupHexGap THEN acc
  ELSE IF isContinuationChunk(entries[j].fileType)
    THEN CollectGroup(entries, j + 1, headerHex,
           [claimed |-> acc.claimed \cup {j},
            groupFiles |-> Append(acc.groupFiles, entries[j].file)])
  ELSE CollectGroup(entries, j + 1, headerHex, acc)

\* the non-MP4 branch of the walk for the header at index i (already claimed)
VisitOtherHeader(entries, i, st) ==
  LET entry == entries[i]
      got == CollectGroup(entries, i + 1, entry.hex,
                          [claimed |-> st.claimed, groupFiles |-> <<entry.file>>])
      idx == st.resourceIdx + 1
      category == getMediaCategory(entry.fileType)
      label == IF category = "video" THEN "Video"
               ELSE IF category = "audio" THEN "Audio" ELSE "File"
  IN [claimed |-> got.claimed,
      resourceIdx |-> idx,
      resources |-> Append(st.resources,
         Resource(entry.fileType, category, got.groupFiles, entry.file.name,
                  TotalSize(got.groupFiles),
                  DisplayName(label, idx, Len(got.groupFiles) > 1),
                  MaxModifiedAt(got.groupFiles)))]

RECURSIVE Walk(_, _, _)
\* the sequential grouping walk from index i; st is [claimed, resourceIdx, resources]
Walk(entries, i, st) ==
  IF i > Len(entries) THEN st
  ELSE IF i \in st.claimed \/ ~isMediaHeader(entries[i].fileType)
    THEN Walk(entries, i + 1, st)
  ELSE LET st1 == [st EXCEPT !.claimed = st.claimed \cup {i}]
       IN Walk(entries, i + 1,
               IF entries[i].fileType = "mp4_header_only" /\ entries[i].mp4Data # <<>>
               THEN VisitMP4Header(entries, i, st1)
               ELSE VisitOtherHeader(entries, i, st1))

\* the unknown_data resource of the unclaimed entries, if any
TailResources(entries, claimed) ==
  LET idx == SelectSeq([k \in 1..Len(entries) |-> k], LAMBDA k : k \notin claimed)
      unclaimed == [k \in 1..Len(idx) |-> entries[idx[k]].file]
  IN IF Len(unclaimed) > 0
     THEN <<Resource("unknown_data", "other", unclaimed, <<>>, TotalSize(unclaimed),
                     DisplayName("Unidentified chunks", Len(unclaimed), FALSE),
                     MaxModifiedAt(unclaimed))>>
     ELSE <<>>

\* the walk over the sorted entries, then the tail
WalkAndTail(entries, walked) ==
  [entries |-> entries, claimed |-> walked.claimed,
   resources |-> walked.resources \o TailResources(entries, walked.claimed)]

\* Phases 4 and 5 on the entries, after the standalone resources were emitted
GroupEntries(entries, emitted) ==
  WalkAndTail(entries, Walk(entries, 1, [claimed |-> {}, resourceIdx |-> Len(emitted),
                                         resources |-> emitted]))

\* everything scanCacheFolder does between the "grouping" progress call and the
\* thumbnails: [entries, claimed, resources]
Grouping(standalone, mp4Headers, dataChunks) ==
  GroupEntries(SortByHex(UnsortedEntries(mp4Headers, dataChunks,
                                         SelectSeq(standalone, LAMBDA e : ~IsTrueStandalone(e)))),
               StandaloneResources(SelectSeq(standalone, IsTrueStandalone)))

(***************************************************************************)
(* The scan as a state machine                                             *)
(***************************************************************************)

VARIABLES
  disk,             \* the listing list_cache_files will return
  pc,               \* where scanCacheFolder stands
  progressPhase,    \* the phase of the last onProgress call
  files,            \* the listing the scan holds
  simpleCacheMap,   \* hash groups in insertion order
  blockfileFiles,
  groupIdx,         \* the Phase 2a loop position (1-based)
  fileIdx,          \* the Phase 2b loop position (1-based)
  detectIdx,
  sparseFailed,     \* hashes of the groups whose sparse detection ended in its catch block
  standaloneFiles,
  mp4HeaderFiles,
  dataChunkFiles,
  blockfileEntries, \* the sorted entries of the walk
  claimed,          \* the claimed entry indices (1-based)
  resources,        \* the list scanCacheFolder returns once pc = "done"
  dpc,              \* detection harness: its position
  dHeader,          \* detection harness: the buffer
  dTail,            \* detection harness: the bytes appended to it
  dResult,          \* detectFileType(dHeader)
  dTailResult,      \* detectFileType(dHeader \o dTail)
  rpc,              \* where recoverResources stands
  batch,            \* the resources recoverResources was called with
  options,          \* its RecoveryOptions
  ri,               \* the loop position (1-based)
  rlog,             \* log
  rerrors,          \* errors
  lastProgressUpdate,
  now,              \* what Date.now() returns
  emitted,          \* the calls of onProgress so far: phase, current, time and caller
  progress,         \* the object of the last call of onProgress
  outFiles,         \* the files under the output folder and what they hold
  calls             \* the backend commands and tool runs so far, with their results

scanVars == <<disk, pc, progressPhase, files, simpleCacheMap, blockfileFiles, groupIdx,
              fileIdx, detectIdx, sparseFailed, standaloneFiles, mp4HeaderFiles, dataChunkFiles,
              blockfileEntries, claimed, resources>>

detectVars == <<dpc, dHeader, dTail, dResult, dTailResult>>

recoverVars == <<rpc, batch, options, ri, rlog, rerrors, lastProgressUpdate, now, emitted,
                 progress, outFiles, calls>>

VARIABLES bpc, bData, bBoxes

boxVars == <<bpc, bData, bBoxes>>

BoxIdle ==
  /\ bpc = "idle"
  /\ bData = <<>>
  /\ bBoxes = <<>>

VARIABLES currentScanAbortController, isScanRunning, runs, store, storeWrites, superseded

serviceVars == <<currentScanAbortController, isScanRunning, runs, store, storeWrites, superseded>>

ServiceIdle ==
  /\ currentScanAbortController = 0
  /\ isScanRunning = FALSE
  /\ runs = <<>>
  /\ store = [isScanning |-> FALSE, scannerStep |-> "select", scanProgress |-> "",
              resources |-> <<>>]
  /\ storeWrites = {}
  /\ superseded = {}

vars == <<scanVars, detectVars, recoverVars, boxVars, serviceVars>>

RECURSIVE PicksUpTo(_)
\* the sets of at most n catalogue indices
PicksUpTo(n) ==
  IF n = 0 THEN {{}}
  ELSE PicksUpTo(n - 1) \cup {S \cup {x} : S \in PicksUpTo(n - 1), x \in 1..Len(Catalogue)}

\* the listing of a directory: the picked catalogue files, then run chunks
DirListing(picks, run) ==
  LET idx == SelectSeq([k \in 1..Len(Catalogue) |-> k], LAMBDA k : k \in picks)
  IN [k \in 1..Len(idx) |-> EntryOf(Catalogue[idx[k]])] \o [j \in 1..run |-> EntryOf(RunFile(j))]

\* the run of chunks follows the header f_000010
Directories ==
  {DirListing(P, r) : P \in {Q \in PicksUpTo(MaxPick) : 1 \in Q}, r \in 0..MaxRun}
  \cup {DirListing(P, 0) : P \in {Q \in PicksUpTo(MaxPick) : 1 \notin Q}}

ScanIdle ==
  /\ pc = "idle"
  /\ disk = <<>>
  /\ progressPhase = Null
  /\ files = <<>>
  /\ simpleCacheMap = <<>>
  /\ blockfileFiles = <<>>
  /\ groupIdx = 1
  /\ fileIdx = 1
  /\ detectIdx = 0
  /\ sparseFailed = {}
  /\ standaloneFiles = <<>>
  /\ mp4HeaderFiles = <<>>
  /\ dataChunkFiles = <<>>
  /\ blockfileEntries = <<>>
  /\ claimed = {}
  /\ resources = <<>>

DetectIdle ==
  /\ dpc = "idle"
  /\ dHeader = <<>>
  /\ dTail = <<>>
  /\ dResult = Null
  /\ dTailResult = Null

RecoverIdle ==
  /\ rpc = "idle"
  /\ batch = <<>>
  /\ options = <<>>
  /\ ri = 1
  /\ rlog = <<>>
  /\ rerrors = <<>>
  /\ lastProgressUpdate = 0
  /\ now = 0
  /\ emitted = <<>>
  /\ progress = <<>>
  /\ outFiles = {}
  /\ calls = <<>>

\* scanCacheFolder is called on a directory
Init ==
  /\ disk \in Directories
  /\ pc = "start"
  /\ progressPhase = Null
  /\ files = <<>>
  /\ simpleCacheMap = <<>>
  /\ blockfileFiles = <<>>
  /\ groupIdx = 1
  /\ fileIdx = 1
  /\ detectIdx = 0
  /\ sparseFailed = {}
  /\ standaloneFiles = <<>>
  /\ mp4HeaderFiles = <<>>
  /\ dataChunkFiles = <<>>
  /\ blockfileEntries = <<>>
  /\ claimed = {}
  /\ resources = <<>>
  /\ DetectIdle
  /\ RecoverIdle
  /\ BoxIdle
  /\ ServiceIdle

\* the position after the Phase 2a loop reached index k
AfterSimple(k, map, bf) ==
  IF k <= Len(map) THEN "simple"
  ELSE IF Len(bf) > 0 THEN "blockfile"
  ELSE "grouping"

\* list_cache_files returns; an empty listing returns []; else Phase 1 runs
ListFiles ==
  /\ pc = "start"
  /\ files' = disk
  /\ IF Len(disk) = 0
     THEN /\ pc' = "done"
          /\ progressPhase' = "listing"
          /\ UNCHANGED <<simpleCacheMap, blockfileFiles>>
     ELSE /\ simpleCacheMap' = PartitionSimple(disk, <<>>)
          /\ blockfileFiles' = PartitionBlockfile(disk)
          /\ pc' = AfterSimple(1, simpleCacheMap', blockfileFiles')
          /\ progressPhase' = IF pc' = "grouping" THEN "grouping" ELSE "listing"
  /\ UNCHANGED <<disk, groupIdx, fileIdx, detectIdx, sparseFailed, standaloneFiles,
                 mp4HeaderFiles, dataChunkFiles, blockfileEntries, claimed, resources>>
  /\ UNCHANGED detectVars
  /\ UNCHANGED recoverVars
  /\ UNCHANGED serviceVars
  /\ UNCHANGED boxVars

\* one iteration of the Phase 2a loop
DetectSimple ==
  /\ pc = "simple"
  /\ \E readOk \in BOOLEAN :
       LET group == simpleCacheMap[groupIdx]
           skipped == group.file0 = <<>> /\ group.fileS = <<>>
           triesSparse == group.fileS # <<>> /\ group.fileS[1].size > 0
       IN /\ standaloneFiles' = standaloneFiles \o DetectGroup(group, readOk)
          /\ sparseFailed' = IF triesSparse /\ ~readOk
                              THEN sparseFailed \cup {group.hash} ELSE sparseFailed
          /\ detectIdx' = IF skipped THEN detectIdx ELSE detectIdx + 1
          /\ groupIdx' = groupIdx + 1
          /\ pc' = AfterSimple(groupIdx + 1, simpleCacheMap, blockfileFiles)
          /\ progressPhase' = IF pc' = "grouping" THEN "grouping"
                              ELSE IF skipped THEN progressPhase ELSE "detecting"
  /\ UNCHANGED <<disk, files, simpleCacheMap, blockfileFiles, fileIdx, mp4HeaderFiles,
                 dataChunkFiles, blockfileEntries, claimed, resources>>
  /\ UNCHANGED detectVars
  /\ UNCHANGED recoverVars
  /\ UNCHANGED serviceVars
  /\ UNCHANGED boxVars

\* one iteration of the Phase 2b loop
DetectBlockfile ==
  /\ pc = "blockfile"
  /\ LET file == blockfileFiles[fileIdx]
         class == BlockfileClass(file)
     IN /\ standaloneFiles' =
             IF class = "standalone"
             THEN Append(standaloneFiles,
                         [file |-> file, fileType |-> BlockfileStandaloneType(file)])
             ELSE standaloneFiles
        /\ mp4HeaderFiles' =
             IF class = "mp4Header"
             THEN Append(mp4HeaderFiles, [file |-> file, data |-> ReadFileBytes(file)])
             ELSE mp4HeaderFiles
        /\ dataChunkFiles' =
             IF class = "dataChunk" THEN Append(dataChunkFiles, file) ELSE dataChunkFiles
  /\ detectIdx' = detectIdx + 1
  /\ fileIdx' = fileIdx + 1
  /\ pc' = IF fileIdx + 1 <= Len(blockfileFiles) THEN "blockfile" ELSE "grouping"
  /\ progressPhase' = IF pc' = "grouping" THEN "grouping" ELSE "detecting"
  /\ UNCHANGED <<disk, files, simpleCacheMap, blockfileFiles, groupIdx, sparseFailed,
                 blockfileEntries, claimed, resources>>
  /\ UNCHANGED detectVars
  /\ UNCHANGED recoverVars
  /\ UNCHANGED serviceVars
  /\ UNCHANGED boxVars

\* a backend command outside any try block fails: scanCacheFolder rejects
ScanThrows ==
  /\ \/ pc = "start"
     \/ pc = "blockfile"
     \/ pc = "simple" /\ \E readOk \in BOOLEAN :
                            ReachesBodyStrategy(simpleCacheMap[groupIdx], readOk)
  /\ pc' = "failed"
  /\ UNCHANGED <<disk, progressPhase, files, simpleCacheMap, blockfileFiles, groupIdx,
                 fileIdx, detectIdx, sparseFailed, standaloneFiles, mp4HeaderFiles,
                 dataChunkFiles, blockfileEntries, claimed, resources>>
  /\ UNCHANGED detectVars
  /\ UNCHANGED recoverVars
  /\ UNCHANGED serviceVars
  /\ UNCHANGED boxVars

\* Phases 3 to 5 run without suspension
Group ==
  /\ pc = "grouping"
  /\ \E g \in {Grouping(standaloneFiles, mp4HeaderFiles, dataChunkFiles)} :
        /\ blockfileEntries' = g.entries
        /\ claimed' = g.claimed
        /\ resources' = g.resources
  /\ pc' = "thumbnails"
  /\ progressPhase' = "thumbnails"
  /\ UNCHANGED <<disk, files, simpleCacheMap, blockfileFiles, groupIdx, fileIdx, detectIdx,
                 sparseFailed, standaloneFiles, mp4HeaderFiles, dataChunkFiles>>
  /\ UNCHANGED detectVars
  /\ UNCHANGED recoverVars
  /\ UNCHANGED serviceVars
  /\ UNCHANGED boxVars

\* generatePreviewThumbnails ends (it sets previewUrl only); the scan returns resources
Thumbnails ==
  /\ pc = "thumbnails"
  /\ pc' = "done"
  /\ progressPhase' = "done"
  /\ UNCHANGED <<disk, files, simpleCacheMap, blockfileFiles, groupIdx, fileIdx, detectIdx,
                 sparseFailed, standaloneFiles, mp4HeaderFiles, dataChunkFiles,
                 blockfileEntries, claimed, resources>>
  /\ UNCHANGED detectVars
  /\ UNCHANGED recoverVars
  /\ UNCHANGED serviceVars
  /\ UNCHANGED boxVars

Next ==
  \/ ListFiles
  \/ DetectSimple
  \/ DetectBlockfile
  \/ ScanThrows
  \/ Group
  \/ Thumbnails

Spec == Init /\ [][Next]_vars

(***************************************************************************)
(* detectFileType applied to a buffer and to the same buffer with a tail   *)
(***************************************************************************)

\* the longest padded buffer
MaxPad == 190

\* the first bytes of the buffers: signatures, and signatures cut short
DetectPrefixes == {
  <<>>, <<255>>, <<255, 216>>, <<255, 216, 255>>, <<255, 241>>, <<71>>,
  <<26, 69, 223>>, <<26, 69, 223, 163>>, <<31, 67, 182>>, <<31, 67, 182, 117>>,
  <<82, 73, 70, 70, 0, 0, 0, 0>>, <<82, 73, 70, 70, 0, 0, 0, 0, 87, 69, 66, 80>>,
  <<0, 0, 0, 24, 109, 111, 111>>, <<0, 0, 0, 24, 109, 111, 111, 102>>,
  <<0, 0, 0, 24, 102, 116, 121, 112, 105, 115, 111>>,
  <<0, 0, 0, 24, 102, 116, 121, 112, 105, 115, 111, 109>>,
  <<0, 0, 0, 24, 102, 116, 121, 112, 97, 118, 105>>,
  <<0, 0, 0, 24, 102, 116, 121, 112, 97, 118, 105, 102>>,
  <<0, 0, 0, 24, 102, 116, 121, 112, 104, 101, 105, 99>>,
  <<0, 0, 0, 32, 102, 116, 121, 112, 77, 52, 65, 32>>,
  <<0, 0, 0, 20, 102, 116, 121, 112, 113, 116, 32, 32>>,
  <<0, 0, 2, 1, 102, 116, 121, 112, 97, 118, 105, 102>>,
  <<0, 0, 1, 0, 102, 116, 121, 112, 105, 115, 111, 109>>,
  <<255, 241, 80, 128>>, <<255, 245, 80, 128>>, <<255, 251, 144, 0>> }

\* the bytes the buffers are padded with, and the lengths they are padded to
PadBytes == {0, 71}

PadLens == {0, 16, TsSyncOffset, TsSyncOffset + 1, MaxPad}

\* prefix, then pad up to length n (the prefix alone when it is as long)
Padded(prefix, pad, n) ==
  [k \in 1..Max(Len(prefix), n) |-> IF k <= Len(prefix) THEN prefix[k] ELSE pad]

DetectBuffers == {Padded(p, b, n) : p \in DetectPrefixes, b \in PadBytes, n \in PadLens}

\* the byte sequences appended to a buffer
DetectTails == {<<255>>, <<71>>, <<71, 71, 71>>, <<117>>, <<102>>, <<109, 0>>,
                <<87, 69, 66, 80>>, <<163, 1, 2>>}

InitDetect ==
  /\ ScanIdle
  /\ RecoverIdle
  /\ dpc = "start"
  /\ dHeader \in DetectBuffers
  /\ dTail = <<>>
  /\ dResult = Null
  /\ dTailResult = Null
  /\ BoxIdle
  /\ ServiceIdle

\* detectFileType(b)
DetectHeader ==
  /\ dpc = "start"
  /\ dResult' = detectFileType(dHeader)
  /\ dpc' = "detected"
  /\ UNCHANGED <<dHeader, dTail, dTailResult>>
  /\ UNCHANGED scanVars
  /\ UNCHANGED recoverVars
  /\ UNCHANGED serviceVars
  /\ UNCHANGED boxVars

\* detectFileType(b followed by t)
DetectWithTail ==
  /\ dpc = "detected"
  /\ \E t \in DetectTails :
       /\ dTail' = t
       /\ dTailResult' = detectFileType(dHeader \o t)
  /\ dpc' = "done"
  /\ UNCHANGED <<dHeader, dResult>>
  /\ UNCHANGED scanVars
  /\ UNCHANGED recoverVars
  /\ UNCHANGED serviceVars
  /\ UNCHANGED boxVars

NextDetect ==
  \/ DetectHeader
  \/ DetectWithTail

SpecDetect == InitDetect /\ [][NextDetect]_vars

(***************************************************************************)
(* recoverResources: paths, messages and the progress sink                 *)
(***************************************************************************)

\* utils.ts getFileExtension
getFileExtension(fileType) ==
  CASE fileType = "png" -> ".png"
    [] fileType = "jpeg" -> ".jpg"
    [] fileType = "gif" -> ".gif"
    [] fileType = "webp" -> ".webp"
    [] fileType = "bmp" -> ".bmp"
    [] fileType = "tiff" -> ".tiff"
    [] fileType = "ico" -> ".ico"
    [] fileType = "avif" -> ".avif"
    [] fileType = "heic" -> ".heic"
    [] fileType \in {"mp4_complete", "mp4_chunked", "mp4_header_only"} -> ".mp4"
    [] fileType = "mp4_fragment" -> ".mp4"
    [] fileType = "webm_mkv" -> ".webm"
    [] fileType = "webm_continuation" -> ".webm"
    [] fileType = "avi" -> ".avi"
    [] fileType = "flv" -> ".flv"
    [] fileType = "mpeg_ts" -> ".ts"
    [] fileType = "wmv" -> ".wmv"
    [] fileType = "mov" -> ".mov"
    [] fileType = "mp3" -> ".mp3"
    [] fileType = "aac" -> ".aac"
    [] fileType = "ogg" -> ".ogg"
    [] fileType = "flac" -> ".flac"
    [] fileType = "wav" -> ".wav"
    [] fileType = "opus" -> ".opus"
    [] fileType = "wma" -> ".wma"
    [] fileType = "m4a" -> ".m4a"
    [] OTHER -> ".bin"

\* a character of [a-zA-Z0-9_-]
IsSafeChar(c) ==
  \/ c \in 48..57
  \/ c \in 65..90
  \/ c \in 97..122
  \/ c = 95
  \/ c = 45

\* displayName.replace(/[^a-zA-Z0-9_-]/g, "_")
BaseName(displayName) ==
  [k \in 1..Len(displayName) |-> IF IsSafeChar(displayName[k]) THEN displayName[k] ELSE 95]

\* the folder of a media category under organizeByType
TypeFolder(mediaCategory) ==
  IF mediaCategory = "image" THEN "images"
  ELSE IF mediaCategory = "video" THEN "videos"
  ELSE IF mediaCategory = "audio" THEN "audio"
  ELSE "other"

\* subFolder, as the folders below the root
SubFolder(resource, opts) ==
  IF opts.organizeByType
  THEN <<opts.outputFolder, TypeFolder(resource.mediaCategory)>>
  ELSE <<opts.outputFolder>>

\* a path under the output folder: folder/base+suffix+ext
OutPath(folder, base, suffix, ext) ==
  [folder |-> folder, base |-> base, suffix |-> suffix, ext |-> ext]

\* outputPath = `${subFolder}/${baseName}${ext}`
OutputPath(resource, opts) ==
  OutPath(SubFolder(resource, opts), BaseName(resource.displayName), "",
          getFileExtension(resource.resourceType))

\* outputPath.replace(/\.([^.]+)$/, "_remuxed.$1")
RemuxedPath(outputPath) == [outputPath EXCEPT !.suffix = @ \o "_remuxed"]

\* outputPath.replace(/\.[^.]+$/, "_thumb.jpg")
ThumbPath(outputPath) == [outputPath EXCEPT !.suffix = @ \o "_thumb", !.ext = ".jpg"]

\* outputPath.replace(/\.gif$/i, "_converted.mp4")
GifMp4Path(outputPath) ==
  IF outputPath.ext \in {".gif", ".GIF"}
  THEN [outputPath EXCEPT !.suffix = @ \o "_converted", !.ext = ".mp4"]
  ELSE outputPath

\* outputPath.replace(/\.webm$/i, "_raw.webm")
RawPath(outputPath) ==
  IF outputPath.ext = ".webm"
  THEN [outputPath EXCEPT !.suffix = @ \o "_raw", !.ext = ".webm"]
  ELSE outputPath

\* mp4OutputPath
Mp4OutputPath(outputPath, opts) ==
  IF opts.convertWebmToMp4 /\ outputPath.ext = ".webm"
  THEN [outputPath EXCEPT !.ext = ".mp4"]
  ELSE outputPath

\* options.outputFolder + "/.cachephoenix_marker"
MarkerPath(opts) == OutPath(<<opts.outputFolder>>, <<>>, ".cachephoenix_marker", "")

\* `${concatFolder}/Concatenated_Video.mp4`
ConcatOutput(opts) ==
  OutPath(IF opts.organizeByType THEN <<opts.outputFolder, "videos">>
          ELSE <<opts.outputFolder>>,
          <<>>, "Concatenated_Video", ".mp4")

\* a path in the cache folder
CachePath(name) == [dir |-> "cache", name |-> name]

\* /[0-9a-f]{16}_s$/.test(path): the test can only succeed inside the file's name
isSparseSource(path) ==
  /\ Len(path.name) >= 18
  /\ \A k \in 1..16 : IsLowerHexChar(path.name[Len(path.name) - 18 + k])
  /\ path.name[Len(path.name) - 1] = 95
  /\ path.name[Len(path.name)] = 115

\* the message a failed command is rejected with:
\*   "Operation not permitted (os error 1)", "Permission denied (os error 13)",
\*   "No such file or directory (os error 2)"
ErrorMessage(errno) ==
  CASE errno = "EPERM" -> <<79, 112, 101, 114, 97, 116, 105, 111, 110, 32, 110, 111, 116, 32,
        112, 101, 114, 109, 105, 116, 116, 101, 100, 32, 40, 111, 115, 32, 101, 114, 114, 111,
        114, 32, 49, 41>>
    [] errno = "EACCES" -> <<80, 101, 114, 109, 105, 115, 115, 105, 111, 110, 32, 100, 101,
        110, 105, 101, 100, 32, 40, 111, 115, 32, 101, 114, 114, 111, 114, 32, 49, 51, 41>>
    [] errno = "ENOENT" -> <<78, 111, 32, 115, 117, 99, 104, 32, 102, 105, 108, 101, 32, 111,
        114, 32, 100, 105, 114, 101, 99, 116, 111, 114, 121, 32, 40, 111, 115, 32, 101, 114,
        114, 111, 114, 32, 50, 41>>

\* s.includes(sub)
Includes(s, sub) ==
  \E k \in 0..(Len(s) - Len(sub)) : SubSeq(s, k + 1, k + Len(sub)) = sub

\* /permission denied|os error 13|EACCES/i.test(msg); the three alternatives are
\* searched in the lowercased message
isPermissionDenied(msg) ==
  \/ Includes(ToLowerCase(msg), <<112, 101, 114, 109, 105, 115, 115, 105, 111, 110, 32, 100,
        101, 110, 105, 101, 100>>)
  \/ Includes(ToLowerCase(msg), <<111, 115, 32, 101, 114, 114, 111, 114, 32, 49, 51>>)
  \/ Includes(ToLowerCase(msg), <<101, 97, 99, 99, 101, 115>>)

THROTTLE_MS == 150

\* the object handed to onProgress
Progress(current, total, currentFile, phase, log, errors) ==
  [current |-> current, total |-> total, currentFile |-> currentFile, phase |-> phase,
   log |-> log, errors |-> errors]

\* onProgress is called with p at time t by caller via; m holds log, errors,
\* lastProgressUpdate and what the sink has received
Emit(m, p, via, t) ==
  [m EXCEPT !.emitted = Append(@, [phase |-> p.phase, current |-> p.current,
                                   via |-> via, at |-> t]),
            !.progress = <<p>>]

\* a notification that is not throttled
notifyProgress_Unthrottled(m, total, t) ==
  Emit([m EXCEPT !.lastProgressUpdate = t],
       Progress(0, total, <<>>, "copying", m.log, m.errors), "notifyProgress", t)

notifyProgress(m, total, t) ==
  IF t - m.lastProgressUpdate < THROTTLE_MS THEN m
  ELSE Emit([m EXCEPT !.lastProgressUpdate = t],
            Progress(0, total, <<>>, "copying", m.log, m.errors), "notifyProgress", t)

addLog(m, msg, total, t) == notifyProgress([m EXCEPT !.log = Append(@, msg)], total, t)

flushProgress(m, total, t) ==
  Emit([m EXCEPT !.lastProgressUpdate = 0],
       Progress(0, total, <<>>, "copying", m.log, m.errors), "flushProgress", t)

\* errors.push(...)
PushError(m, e) == [m EXCEPT !.errors = Append(@, e)]

(***************************************************************************)
(* recoverResources: the batch, the backend and the external tool          *)
(***************************************************************************)

\* the longest batch
MaxBatch == 2

\* how many times the clock advances by THROTTLE_MS during one call
MaxTicks == 1

\* the progress lines one run of the tool prints at most
MaxLines == 1

\* a CacheFileEntry as recovery reads it
RFile(name) == [name |-> name, path |-> CachePath(name)]

\* a CacheResource as recovery reads it
Selected(displayName, resourceType, fs, modifiedAt) ==
  [displayName |-> displayName, resourceType |-> resourceType,
   mediaCategory |-> getMediaCategory(resourceType), files |-> fs, modifiedAt |-> modifiedAt]

\* the resources of a scan the user may select, in the order of the list:
\* "Image 1", "Image 2", "Video 3", "Video 4 (chunked)", "Video 5", "Video 6",
\* "Audio 7", "Unidentified chunks (1)"
Shelf == <<
  Selected(<<73, 109, 97, 103, 101, 32, 49>>, "jpeg", <<RFile(BlockName(49, 56))>>, 7),
  Selected(<<73, 109, 97, 103, 101, 32, 50>>, "gif", <<RFile(BlockName(49, 102))>>, 2),
  Selected(<<86, 105, 100, 101, 111, 32, 51>>, "mp4_complete", <<RFile(SimpleName(97, 115))>>, 6),
  Selected(<<86, 105, 100, 101, 111, 32, 52, 32, 40, 99, 104, 117, 110, 107, 101, 100, 41>>,
           "mp4_chunked", <<RFile(BlockName(49, 48)), RFile(BlockName(49, 49))>>, 11),
  Selected(<<86, 105, 100, 101, 111, 32, 53>>, "webm_mkv", <<RFile(BlockName(51, 48))>>, 8),
  Selected(<<86, 105, 100, 101, 111, 32, 54>>, "mp4_header_only", <<RFile(BlockName(48, 99))>>, 4),
  Selected(<<65, 117, 100, 105, 111, 32, 55>>, "mp3", <<RFile(BlockName(50, 48))>>, 9),
  Selected(<<85, 110, 105, 100, 101, 110, 116, 105, 102, 105, 101, 100, 32, 99, 104, 117, 110,
             107, 115, 32, 40, 49, 41>>,
           "unknown_data", <<RFile(BlockName(51, 49))>>, 1) >>

\* the batches: runs of at most MaxBatch consecutive resources of the list
Batches ==
  {SubSeq(Shelf, w[1], w[1] + w[2] - 1) :
     w \in {v \in (1..Len(Shelf)) \X (0..MaxBatch) : v[1] + v[2] - 1 <= Len(Shelf)}}

RecoveryOption(webm, byType, thumbs, gif, concat) ==
  [outputFolder |-> "out", convertWebmToMp4 |-> webm, organizeByType |-> byType,
   generateThumbnails |-> thumbs, convertGifToMp4 |-> gif, concatenateVideos |-> concat]

OptionChoices == {
  RecoveryOption(FALSE, FALSE, FALSE, FALSE, FALSE),
  RecoveryOption(TRUE, TRUE, TRUE, TRUE, TRUE),
  RecoveryOption(FALSE, FALSE, TRUE, FALSE, TRUE),
  RecoveryOption(TRUE, TRUE, FALSE, TRUE, FALSE) }

\* how long an awaited command or tool run takes
Durations == {0, THROTTLE_MS}

\* the time of the call
StartTime == 10 * THROTTLE_MS

\* the results of a backend command: done, or rejected with an OS error
InvokeOutcomes == {"ok", "EPERM", "EACCES", "ENOENT"}

\* the results of writing the list of the concatenation
ListOutcomes == {"ok", "ENOENT"}

\* a failed writer leaves nothing at a path that is not followed further
Untracked == {FALSE}

\* the results of a run of the external tool: its exit code, or no run at all
ToolOutcomes == {"exit0", "exit1", "threw"}

\* the results of replacing the original by the tool's output
ReplaceOutcomes == {"remove fails", "rename fails", "moov throws", "one moov", "two moov"}

(***************************************************************************)
(* recoverResources: the steps between its awaits                          *)
(***************************************************************************)

\* the output folder's files, as path and content; content names what wrote it
WriteFile(fs, path, content) ==
  {f \in fs : f.path # path} \cup {[path |-> path, holds |-> content]}

RemoveFile(fs, path) == {f \in fs : f.path # path}

Exists(fs, path) == \E f \in fs : f.path = path

RenameFile(fs, from, to) ==
  {f \in fs : f.path \notin {from, to}}
    \cup {[path |-> to, holds |-> g.holds] : g \in {f \in fs : f.path = from}}

\* a writer that failed may leave a partial file behind
FailedWrite(fs, path, left) == IF left THEN WriteFile(fs, path, "partial") ELSE fs

\* remove(path) of plugin-fs: rejected when the file is missing, or for another reason
Removes(fs, path, rmOk) == rmOk /\ Exists(fs, path)

\* a backend command or tool run, as the history keeps it
Call(op, i, from, path, result) ==
  [op |-> op, i |-> i, from |-> from, path |-> path, result |-> result]

\* log, errors, lastProgressUpdate and the sink, gathered
Mon ==
  [log |-> rlog, errors |-> rerrors, lastProgressUpdate |-> lastProgressUpdate,
   emitted |-> emitted, progress |-> progress]

\* the branch of the loop body a resource takes
CopiedTypes ==
  {"mp4_complete", "png", "jpeg", "gif", "webp", "bmp", "tiff", "ico", "avif", "heic",
   "avi", "flv", "mpeg_ts", "wmv", "mov", "mp4_header_only", "mp4_fragment",
   "webm_continuation", "media_data_chunk", "riff_unknown", "mp3", "aac", "ogg", "flac",
   "wav", "opus", "wma", "m4a"}

\* a loop body that sends chunked MP4s through the copy branch
BranchOf_ChunkedCopied(resource) ==
  IF resource.resourceType \in CopiedTypes \cup {"mp4_chunked"} THEN "copy"
  ELSE IF resource.resourceType = "webm_mkv" THEN "concat"
  ELSE "flush"

BranchOf(resource) ==
  IF resource.resourceType \in CopiedTypes THEN "copy"
  ELSE IF resource.resourceType = "mp4_chunked" THEN "reconstruct"
  ELSE IF resource.resourceType = "webm_mkv" THEN "concat"
  ELSE "flush"

\* where the copy branch goes after the re-encode block
AfterReEncode(resource, opts) ==
  IF resource.resourceType = "gif" /\ opts.convertGifToMp4 THEN "gif"
  ELSE IF resource.mediaCategory = "video" /\ opts.generateThumbnails THEN "thumb"
  ELSE "flush"

\* where the copy branch goes after the copy
AfterCopy(resource, opts) ==
  IF resource.mediaCategory = "video" THEN "reencode" ELSE AfterReEncode(resource, opts)

\* where the copy branch goes after the GIF conversion
AfterGif(resource, opts) ==
  IF resource.mediaCategory = "video" /\ opts.generateThumbnails THEN "thumb" ELSE "flush"

\* where recoverResources goes after the loop
AfterLoop(opts) == IF opts.concatenateVideos THEN "join" ELSE "complete"

\* the entry the catch block pushes to errors, kept as its parts
ResourceError(resource, outputPath, errno) ==
  [kind |-> IF isPermissionDenied(ErrorMessage(errno)) THEN "permission" ELSE "failure",
   displayName |-> resource.displayName,
   msg |-> errno,
   src |-> IF Len(resource.files) > 0 THEN <<resource.files[1].path>> ELSE <<>>,
   dst |-> IF isPermissionDenied(ErrorMessage(errno)) THEN <<>> ELSE <<outputPath>>]

\* the other entries of errors
OtherError(kind, displayName) ==
  [kind |-> kind, displayName |-> displayName, msg |-> "", src |-> <<>>, dst |-> <<>>]

\* the log lines of the catch block
CaughtLog(m, denied, total, t) ==
  IF denied
  THEN addLog(addLog(addLog(addLog(m, "  ERROR: ", total, t), "    Source: ", total, t),
                     "    Destination: ", total, t),
              "    -> Fix: System Settings > Privacy & Security > Full Disk Access", total, t)
  ELSE addLog(addLog(addLog(m, "  ERROR: ", total, t), "    Source: ", total, t),
              "    Destination: ", total, t)

\* a catch block that leaves errors alone
Caught_LogOnly(m, resource, outputPath, errno, total, t) ==
  CaughtLog(m, isPermissionDenied(ErrorMessage(errno)), total, t)

\* the catch block of the loop body
Caught(m, resource, outputPath, errno, total, t) ==
  CaughtLog(PushError(m, ResourceError(resource, outputPath, errno)),
            isPermissionDenied(ErrorMessage(errno)), total, t)

\* the message Command.execute is rejected with when the tool cannot be run
ToolErrno == "ENOENT"

\* the result of a step: the sink and logs, the files, the history, the next position
Result(m, fs, cs, next) == [m |-> m, fs |-> fs, cs |-> cs, next |-> next]

\* the step is taken: r is its result, it ends at time t with the loop at index i
Step(r, t, i) ==
  /\ rlog' = r.m.log
  /\ rerrors' = r.m.errors
  /\ lastProgressUpdate' = r.m.lastProgressUpdate
  /\ emitted' = r.m.emitted
  /\ progress' = r.m.progress
  /\ outFiles' = r.fs
  /\ calls' = r.cs
  /\ rpc' = r.next
  /\ now' = t
  /\ ri' = i
  /\ UNCHANGED <<batch, options>>
  /\ UNCHANGED serviceVars
  /\ UNCHANGED boxVars
  /\ UNCHANGED scanVars
  /\ UNCHANGED detectVars

\* the clock may advance by d during an await
Elapses(d) == d \in Durations /\ now + d <= StartTime + MaxTicks * THROTTLE_MS

\* recoverResources is called with a batch and options
InitRecover ==
  /\ ScanIdle
  /\ DetectIdle
  /\ rpc = "start"
  /\ batch \in Batches
  /\ options \in OptionChoices
  /\ ri = 1
  /\ rlog = <<>>
  /\ rerrors = <<>>
  /\ lastProgressUpdate = 0
  /\ now = StartTime
  /\ emitted = <<>>
  /\ progress = <<>>
  /\ outFiles = {}
  /\ calls = <<>>
  /\ BoxIdle
  /\ ServiceIdle

\* write_file_bytes of the marker returned or was rejected (no try block around it)
MarkerResult(m, fs, cs, opts, n, res, left) ==
  IF res = "ok"
  THEN Result(m, WriteFile(fs, MarkerPath(opts), "marker"),
              Append(cs, Call("write_file_bytes", 0, <<>>, MarkerPath(opts), res)),
              IF n > 0 THEN "resource" ELSE AfterLoop(opts))
  ELSE Result(m, FailedWrite(fs, MarkerPath(opts), left),
              Append(cs, Call("write_file_bytes", 0, <<>>, MarkerPath(opts), res)),
              "thrown")

\* the marker file is written before the loop
WriteMarker ==
  /\ rpc = "start"
  /\ \E d \in Durations, res \in InvokeOutcomes, left \in Untracked :
       /\ Elapses(d)
       /\ \E r \in {MarkerResult(Mon, outFiles, calls, options, Len(batch), res, left)} :
             Step(r, now + d, ri)

\* the head of the loop body: the paths are computed and the resource is announced
BeginResource ==
  /\ rpc = "resource"
  /\ \E r \in {Result(Emit(Mon, Progress(ri, Len(batch), batch[ri].displayName, "copying",
                                        rlog, rerrors), "loop", now),
                      outFiles, calls, BranchOf(batch[ri]))} :
        Step(r, now, ri)

\* the copy command the source calls for
CopyCall(resource, opts, i, res) ==
  Call(IF isSparseSource(resource.files[1].path) THEN "copy_sparse_file" ELSE "copy_file",
       i, <<resource.files[1].path>>, OutputPath(resource, opts), res)

\* copy_file or copy_sparse_file returned or was rejected
CopyResult(m1, fs, cs, resource, opts, i, total, res, left, t1) ==
  IF res = "ok"
  THEN Result(addLog(m1, "  -> ", total, t1),
              WriteFile(fs, OutputPath(resource, opts), "raw copy"),
              Append(cs, CopyCall(resource, opts, i, res)),
              AfterCopy(resource, opts))
  ELSE Result(Caught(m1, resource, OutputPath(resource, opts), res, total, t1),
              FailedWrite(fs, OutputPath(resource, opts), left),
              Append(cs, CopyCall(resource, opts, i, res)),
              "flush")

\* the copy of a single-file resource
CopyFile ==
  /\ rpc = "copy"
  /\ \E d \in Durations, res \in InvokeOutcomes, left \in Untracked :
       /\ Elapses(d)
       /\ \E r \in {CopyResult(addLog(Mon, "Copying ", Len(batch), now), outFiles, calls,
                               batch[ri], options, ri, Len(batch), res, left, now + d)} :
             Step(r, now + d, ri)

\* what a run of the tool leaves at its output path
ToolWrites(fs, path, o, left, content) ==
  IF o = "exit0" THEN WriteFile(fs, path, content) ELSE FailedWrite(fs, path, left)

\* remove(outputPath), rename(remuxedPath, outputPath), fix_mp4_moov in their try block
Replaced(fs, out, tmp, how) ==
  IF how = "remove fails" THEN fs
  ELSE IF how = "rename fails" THEN RemoveFile(fs, out)
  ELSE RenameFile(RemoveFile(fs, out), tmp, out)

ReplaceCalls(cs, i, out, tmp, how) ==
  IF how = "remove fails" THEN Append(cs, Call("remove", i, <<>>, out, "failed"))
  ELSE IF how = "rename fails"
    THEN cs \o <<Call("remove", i, <<>>, out, "ok"), Call("rename", i, <<tmp>>, out, "failed")>>
  ELSE cs \o <<Call("remove", i, <<>>, out, "ok"), Call("rename", i, <<tmp>>, out, "ok"),
               Call("fix_mp4_moov", i, <<>>, out, how)>>

ReplaceLog(m, how, okMsg, total, t) ==
  IF how \in {"remove fails", "rename fails"} THEN m
  ELSE IF how = "two moov"
    THEN addLog(addLog(m, okMsg, total, t), "  Fixed moov boxes (stripped duplicates)",
                total, t)
  ELSE addLog(m, okMsg, total, t)

\* a removal that never happens
Scrapped_Kept(fs, path, rmOk) == fs

\* remove(path) in a try block of its own: best effort
Scrapped(fs, path, rmOk) == IF Removes(fs, path, rmOk) THEN RemoveFile(fs, path) ELSE fs

ScrapCall(i, path, fs, rmOk) ==
  Call("remove", i, <<>>, path, IF Removes(fs, path, rmOk) THEN "ok" ELSE "failed")

\* the tool exited: on 0 its output replaces the original, else its output is removed
Polished(m1, fs1, cs1, out, tmp, i, total, o, how, rmOk, t1, okMsg, failMsg, next) ==
  IF o = "exit0"
  THEN Result(ReplaceLog(m1, how, okMsg, total, t1), Replaced(fs1, out, tmp, how),
              ReplaceCalls(cs1, i, out, tmp, how), next)
  ELSE Result(addLog(m1, failMsg, total, t1), Scrapped(fs1, tmp, rmOk),
              Append(cs1, ScrapCall(i, tmp, fs1, rmOk)), next)

\* ffmpegReEncode(outputPath, remuxedPath) exited or could not be run
ReEncodeResult(m1, fs, cs, resource, opts, out, i, total, o, left, how, rmOk, t1) ==
  IF o = "threw"
  THEN Result(Caught(m1, resource, out, ToolErrno, total, t1), fs,
              Append(cs, Call("ffmpegReEncode", i, <<out>>, RemuxedPath(out), o)), "flush")
  ELSE Polished(m1, ToolWrites(fs, RemuxedPath(out), o, left, "re-encoded"),
                Append(cs, Call("ffmpegReEncode", i, <<out>>, RemuxedPath(out), o)),
                out, RemuxedPath(out), i, total, o, how, rmOk, t1,
                "  Re-encode successful", "  Re-encode failed, keeping raw copy",
                AfterReEncode(resource, opts))

\* the re-encode of a copied video
ReEncodeVideo ==
  /\ rpc = "reencode"
  /\ \E d \in Durations, o \in ToolOutcomes, left \in BOOLEAN, how \in ReplaceOutcomes,
        rmOk \in BOOLEAN :
       /\ Elapses(d)
       /\ \E r \in {ReEncodeResult(addLog(Mon, "  Re-encoding video for playability...",
                                          Len(batch), now),
                                   outFiles, calls, batch[ri], options,
                                   OutputPath(batch[ri], options), ri, Len(batch), o, left,
                                   how, rmOk, now + d)} :
             Step(r, now + d, ri)

\* convertGifToMp4(outputPath, mp4Path) exited or could not be run
ConvertResult(m1, fs, cs, resource, opts, out, i, total, o, left, t1) ==
  IF o = "threw"
  THEN Result(Caught(m1, resource, out, ToolErrno, total, t1), fs,
              Append(cs, Call("convertGifToMp4", i, <<out>>, GifMp4Path(out), o)), "flush")
  ELSE Result(IF o = "exit0" THEN addLog(m1, "  -> ", total, t1)
              ELSE PushError(m1, OtherError("gif", resource.displayName)),
              ToolWrites(fs, GifMp4Path(out), o, left, "converted"),
              Append(cs, Call("convertGifToMp4", i, <<out>>, GifMp4Path(out), o)),
              AfterGif(resource, opts))

\* the optional conversion of a GIF
ConvertGif ==
  /\ rpc = "gif"
  /\ \E d \in Durations, o \in ToolOutcomes, left \in Untracked :
       /\ Elapses(d)
       /\ \E r \in {ConvertResult(addLog(Mon, "  Converting GIF to MP4...", Len(batch), now),
                                  outFiles, calls, batch[ri], options,
                                  OutputPath(batch[ri], options), ri, Len(batch), o, left,
                                  now + d)} :
             Step(r, now + d, ri)

\* generateThumbnail(outputPath, thumbPath) exited or could not be run
ThumbResult(m, fs, cs, resource, out, i, total, o, left, t1) ==
  IF o = "threw"
  THEN Result(Caught(m, resource, out, ToolErrno, total, t1), fs,
              Append(cs, Call("generateThumbnail", i, <<out>>, ThumbPath(out), o)), "flush")
  ELSE Result(m, ToolWrites(fs, ThumbPath(out), o, left, "thumbnail"),
              Append(cs, Call("generateThumbnail", i, <<out>>, ThumbPath(out), o)), "flush")

\* the optional thumbnail of a video
Thumbnail ==
  /\ rpc = "thumb"
  /\ \E d \in Durations, o \in ToolOutcomes, left \in Untracked :
       /\ Elapses(d)
       /\ \E r \in {ThumbResult(Mon, outFiles, calls, batch[ri],
                                OutputPath(batch[ri], options), ri, Len(batch), o, left,
                                now + d)} :
             Step(r, now + d, ri)

\* the paths of all the files of a resource
FilePaths(resource) == [k \in 1..Len(resource.files) |-> resource.files[k].path]

\* the announcement of the reconstruction, after its log line
Reconstructing(m1, i, total, resource, t) ==
  Emit(m1, Progress(i, total, resource.displayName, "reconstructing", m1.log, m1.errors),
       "reconstructing", t)

\* reconstruct_chunked_mp4 returned or was rejected
ReconstructResult(m2, fs, cs, resource, out, i, total, res, left, t1) ==
  IF res = "ok"
  THEN Result(addLog(m2, "  Raw reconstruction: ", total, t1),
              WriteFile(fs, out, "raw assembly"),
              Append(cs, Call("reconstruct_chunked_mp4", i, FilePaths(resource), out, res)),
              "remux")
  ELSE Result(Caught(m2, resource, out, res, total, t1), FailedWrite(fs, out, left),
              Append(cs, Call("reconstruct_chunked_mp4", i, FilePaths(resource), out, res)),
              "flush")

\* the assembly of a chunked MP4
Reconstruct ==
  /\ rpc = "reconstruct"
  /\ \E d \in Durations, res \in InvokeOutcomes, left \in Untracked :
       /\ Elapses(d)
       /\ \E r \in {ReconstructResult(
                      Reconstructing(addLog(Mon, "Reconstructing chunked MP4: ",
                                            Len(batch), now),
                                     ri, Len(batch), batch[ri], now),
                      outFiles, calls, batch[ri], OutputPath(batch[ri], options), ri,
                      Len(batch), res, left, now + d)} :
             Step(r, now + d, ri)

\* the log line that ends the chunked branch before its thumbnail
Arrow(r, total, t) == [r EXCEPT !.m = addLog(@, "  -> ", total, t)]

\* ffmpegRemux(outputPath, remuxedPath) exited or could not be run
RemuxResult(m1, fs, cs, resource, opts, out, i, total, o, left, how, rmOk, t1) ==
  IF o = "threw"
  THEN Result(Caught(m1, resource, out, ToolErrno, total, t1), fs,
              Append(cs, Call("ffmpegRemux", i, <<out>>, RemuxedPath(out), o)), "flush")
  ELSE Arrow(Polished(m1, ToolWrites(fs, RemuxedPath(out), o, left, "remuxed"),
                      Append(cs, Call("ffmpegRemux", i, <<out>>, RemuxedPath(out), o)),
                      out, RemuxedPath(out), i, total, o, how, rmOk, t1,
                      "  Re-mux successful", "  Re-mux failed, keeping raw reconstruction",
                      IF opts.generateThumbnails THEN "thumb" ELSE "flush"),
             total, t1)

\* the stream-copy remux of an assembled MP4
Remux ==
  /\ rpc = "remux"
  /\ \E d \in Durations, o \in ToolOutcomes, left \in BOOLEAN, how \in ReplaceOutcomes,
        rmOk \in BOOLEAN :
       /\ Elapses(d)
       /\ \E r \in {RemuxResult(addLog(Mon, "  Re-muxing for playability...", Len(batch), now),
                                outFiles, calls, batch[ri], options,
                                OutputPath(batch[ri], options), ri, Len(batch), o, left,
                                how, rmOk, now + d)} :
             Step(r, now + d, ri)

\* concat_files(chunkPaths, rawPath) returned or was rejected
ConcatResult(m1, fs, cs, resource, out, i, total, res, left, t1) ==
  IF res = "ok"
  THEN Result(m1, WriteFile(fs, RawPath(out), "concatenated"),
              Append(cs, Call("concat_files", i, FilePaths(resource), RawPath(out), res)),
              "webm")
  ELSE Result(Caught(m1, resource, out, res, total, t1),
              FailedWrite(fs, RawPath(out), left),
              Append(cs, Call("concat_files", i, FilePaths(resource), RawPath(out), res)),
              "flush")

\* the concatenation of the files of a WebM/MKV resource
ConcatWebm ==
  /\ rpc = "concat"
  /\ \E d \in Durations, res \in InvokeOutcomes, left \in BOOLEAN :
       /\ Elapses(d)
       /\ \E r \in {ConcatResult(addLog(Mon, "Recovering WebM/MKV: ", Len(batch), now),
                                 outFiles, calls, batch[ri],
                                 OutputPath(batch[ri], options), ri, Len(batch), res, left,
                                 now + d)} :
             Step(r, now + d, ri)

\* a progress line of the tool: it replaces the log line of the same prefix, or is
\* pushed (the lines of one prefix are modelled with one text)
OnToolLine(m, line, total, t) ==
  notifyProgress([m EXCEPT !.log = IF \E k \in 1..Len(@) : @[k] = line THEN @
                                   ELSE Append(@, line)],
                 total, t)

RECURSIVE ToolLines(_, _, _, _, _)
\* n progress lines of the tool
ToolLines(m, line, n, total, t) ==
  IF n = 0 THEN m ELSE OnToolLine(ToolLines(m, line, n - 1, total, t), line, total, t)

\* after ffmpegReEncode(rawPath, mp4OutputPath) and the finally block that removes rawPath
WebmDone(m1, fs1, cs1, resource, out, raw, i, total, o, rmOk, t1) ==
  Result(IF o = "threw" THEN Caught(m1, resource, out, ToolErrno, total, t1)
         ELSE IF o = "exit0" THEN addLog(m1, "  -> ", total, t1)
         ELSE PushError(m1, OtherError("webm", resource.displayName)),
         Scrapped(fs1, raw, rmOk),
         Append(cs1, ScrapCall(i, raw, fs1, rmOk)),
         "flush")

\* ffmpegReEncode(rawPath, mp4OutputPath) exited or could not be run
WebmResult(m, fs, cs, resource, opts, out, i, total, o, left, rmOk, lines, t1) ==
  WebmDone(IF o = "threw" THEN m ELSE ToolLines(m, "  ffmpeg: frame=", lines, total, t1),
           IF o = "threw" THEN fs
           ELSE ToolWrites(fs, Mp4OutputPath(out, opts), o, left, "re-encoded"),
           Append(cs, Call("ffmpegReEncode", i, <<RawPath(out)>>, Mp4OutputPath(out, opts), o)),
           resource, out, RawPath(out), i, total, o, rmOk, t1)

\* the re-encode of a concatenated WebM/MKV
ReEncodeWebm ==
  /\ rpc = "webm"
  /\ \E d \in Durations, o \in ToolOutcomes, left \in Untracked, rmOk \in BOOLEAN,
        lines \in 0..MaxLines :
       /\ Elapses(d)
       /\ \E r \in {WebmResult(Mon, outFiles, calls, batch[ri], options,
                               OutputPath(batch[ri], options), ri, Len(batch), o, left,
                               rmOk, lines, now + d)} :
             Step(r, now + d, ri)

\* flushProgress() at the end of the loop body, and the loop's next turn
Flush ==
  /\ rpc = "flush"
  /\ \E r \in {Result(flushProgress(Mon, Len(batch), now), outFiles, calls,
                      IF ri + 1 <= Len(batch) THEN "resource" ELSE AfterLoop(options))} :
        Step(r, now, ri + 1)

\* the text of an entry of errors:
\*   `${displayName}: Permission denied — grant Full Disk Access in System Settings >
\*    Privacy & Security (src: ${src})`,
\*   `${displayName}: ${msg} (src: ${src}, dst: ${outputPath})`,
\*   `Failed to convert GIF: ${displayName}`, `Failed to recover WebM: ${displayName}`,
\*   "Failed to concatenate videos"
ErrorText(e) ==
  IF e.kind = "permission"
  THEN e.displayName \o
         <<58, 32, 80, 101, 114, 109, 105, 115, 115, 105, 111, 110, 32, 100, 101, 110, 105,
           101, 100, 32, 8212, 32, 103, 114, 97, 110, 116, 32, 70, 117, 108, 108, 32, 68, 105,
           115, 107, 32, 65, 99, 99, 101, 115, 115, 32, 105, 110, 32, 83, 121, 115, 116, 101,
           109, 32, 83, 101, 116, 116, 105, 110, 103, 115, 32, 62, 32, 80, 114, 105, 118, 97,
           99, 121, 32, 38, 32, 83, 101, 99, 117, 114, 105, 116, 121, 32, 40, 115, 114, 99, 58,
           32>>
         \o e.src[1].name \o <<41>>
  ELSE IF e.kind = "failure"
  THEN e.displayName \o <<58, 32>> \o ErrorMessage(e.msg) \o <<32, 40, 115, 114, 99, 58, 32>>
         \o e.src[1].name \o <<44, 32, 100, 115, 116, 58, 32>> \o e.dst[1].base \o <<41>>
  ELSE IF e.kind = "gif"
  THEN
       <<70, 97, 105, 108, 101, 100, 32, 116, 111, 32, 99, 111, 110, 118, 101, 114, 116, 32,
         71, 73, 70, 58, 32>>
         \o e.displayName
  ELSE IF e.kind = "webm"
  THEN
       <<70, 97, 105, 108, 101, 100, 32, 116, 111, 32, 114, 101, 99, 111, 118, 101, 114, 32,
         87, 101, 98, 77, 58, 32>>
         \o e.displayName
  ELSE
       <<70, 97, 105, 108, 101, 100, 32, 116, 111, 32, 99, 111, 110, 99, 97, 116, 101, 110, 97,
         116, 101, 32, 118, 105, 100, 101, 111, 115>>

\* errors.some((e) => e.includes(resource.displayName))
WasError(resource, errors) ==
  \E k \in 1..Len(errors) : Includes(ErrorText(errors[k]), resource.displayName)

\* the output path the concatenation expects for a video
VideoFilePath(resource, opts) ==
  OutPath(IF opts.organizeByType THEN <<opts.outputFolder, "videos">>
          ELSE <<opts.outputFolder>>,
          BaseName(resource.displayName), "", getFileExtension(resource.resourceType))

RECURSIVE InsertByModifiedAt(_, _)
InsertByModifiedAt(sorted, e) ==
  IF sorted = <<>> THEN <<e>>
  ELSE IF e.modifiedAt < Head(sorted).modifiedAt THEN <<e>> \o sorted
  ELSE <<Head(sorted)>> \o InsertByModifiedAt(Tail(sorted), e)

RECURSIVE SortByModifiedAt(_)
\* videoPaths.sort((a, b) => a.modifiedAt - b.modifiedAt)
SortByModifiedAt(s) ==
  IF s = <<>> THEN <<>>
  ELSE InsertByModifiedAt(SortByModifiedAt(SubSeq(s, 1, Len(s) - 1)), s[Len(s)])

\* videoPaths before the sort
VideoPaths(rs, opts, errors) ==
  LET vs == SelectSeq(rs, LAMBDA r : r.mediaCategory = "video" /\ ~WasError(r, errors))
  IN [k \in 1..Len(vs) |->
        [path |-> VideoFilePath(vs[k], opts), modifiedAt |-> vs[k].modifiedAt]]

\* outputPath.replace(/\.[^.]+$/, "_concat_list.txt")
ConcatListPath(opts) ==
  [ConcatOutput(opts) EXCEPT !.suffix = @ \o "_concat_list", !.ext = ".txt"]

\* the announcement of the concatenation, after its log line
Concatenating(m1, total, t) ==
  Emit(m1, Progress(total, total,
                    <<67, 111, 110, 99, 97, 116, 101, 110, 97, 116, 105, 110, 103, 32, 118,
                      105, 100, 101, 111, 115, 46, 46, 46>>,
                    "copying", m1.log, m1.errors),
       "concatenating", t)

\* ffmpegConcat after the tool exited: the list is removed, the result is logged
JoinDone(m3, fs1, cs1, opts, total, o, rmOk, t1) ==
  Result(IF o = "exit0" THEN addLog(m3, "  -> ", total, t1)
         ELSE addLog(PushError(m3, OtherError("concat", <<>>)), "  Concatenation failed",
                     total, t1),
         Scrapped(fs1, ConcatListPath(opts), rmOk),
         Append(cs1, ScrapCall(0, ConcatListPath(opts), fs1, rmOk)),
         "complete")

\* ffmpegConcat(paths, concatOutput): nothing of it is inside a try block
JoinResult(m2, fs, cs, opts, paths, total, listRes, o, left, rmOk, lines, t1) ==
  IF listRes # "ok"
  THEN Result(m2, FailedWrite(fs, ConcatListPath(opts), left),
              Append(cs, Call("write_file_bytes", 0, <<>>, ConcatListPath(opts), listRes)),
              "thrown")
  ELSE IF o = "threw"
  THEN Result(m2, WriteFile(fs, ConcatListPath(opts), "list"),
              cs \o <<Call("write_file_bytes", 0, <<>>, ConcatListPath(opts), listRes),
                      Call("ffmpegConcat", 0, paths, ConcatOutput(opts), o)>>,
              "thrown")
  ELSE JoinDone(ToolLines(m2, "  ffmpeg concat: frame=", lines, total, t1),
                ToolWrites(WriteFile(fs, ConcatListPath(opts), "list"), ConcatOutput(opts),
                           o, left, "joined"),
                cs \o <<Call("write_file_bytes", 0, <<>>, ConcatListPath(opts), listRes),
                        Call("ffmpegConcat", 0, paths, ConcatOutput(opts), o)>>,
                opts, total, o, rmOk, t1)

\* the paths handed to ffmpegConcat
SortedPaths(videoPaths) ==
  [k \in 1..Len(videoPaths) |-> SortByModifiedAt(videoPaths)[k].path]

\* the optional concatenation of the recovered videos
ConcatenateVideos ==
  /\ rpc = "join"
  /\ \E n \in {Len(VideoPaths(batch, options, rerrors))} :
       IF n >= 2
       THEN \E d \in Durations, listRes \in ListOutcomes, o \in ToolOutcomes,
               left \in Untracked, rmOk \in BOOLEAN, lines \in 0..MaxLines :
              /\ Elapses(d)
              /\ \E r \in {JoinResult(
                             Concatenating(addLog(Mon, "Concatenating videos...",
                                                  Len(batch), now),
                                           Len(batch), now),
                             outFiles, calls, options,
                             SortedPaths(VideoPaths(batch, options, rerrors)),
                             Len(batch), listRes, o, left, rmOk, lines, now + d)} :
                    Step(r, now + d, ri)
       ELSE \E r \in {Result(addLog(Mon,
                                    IF n = 1
                                    THEN "Skipping concatenation: only 1 video recovered"
                                    ELSE "Skipping concatenation: no videos recovered successfully",
                                    Len(batch), now),
                             outFiles, calls, "complete")} :
              Step(r, now, ri)

\* the last call of onProgress; recoverResources returns
Complete ==
  /\ rpc = "complete"
  /\ \E r \in {Result(Emit(Mon, Progress(Len(batch), Len(batch), <<>>, "complete",
                                        rlog, rerrors), "complete", now),
                      outFiles, calls, "returned")} :
        Step(r, now, ri)

NextRecover ==
  \/ WriteMarker
  \/ BeginResource
  \/ CopyFile
  \/ ReEncodeVideo
  \/ ConvertGif
  \/ Thumbnail
  \/ Reconstruct
  \/ Remux
  \/ ConcatWebm
  \/ ReEncodeWebm
  \/ Flush
  \/ ConcatenateVideos
  \/ Complete

SpecRecover == InitRecover /\ [][NextRecover]_vars

(***************************************************************************)
(* parseMP4Boxes on buffers of well-formed and malformed boxes             *)
(***************************************************************************)

\* how many pieces a buffer is made of at most
MaxBoxes == 3

\* four bytes, big-endian, of a number below 2^24
Be32(n) == <<0, (n \div 65536) % 256, (n \div 256) % 256, n % 256>>

BoxHeader(size, type) == Be32(size) \o type

ZeroBytes(n) == [k \in 1..n |-> 0]

FREE == <<102, 114, 101, 101>>

\* the pieces of the buffers: boxes, containers, and headers with the size fields 0, 1,
\* below 8 and past the end, a type that is not printable, fewer than 8 bytes
BoxPieces == {
  BoxHeader(8, FREE),
  BoxHeader(16, MDAT) \o ZeroBytes(8),
  BoxHeader(24, MOOV) \o BoxHeader(16, <<116, 114, 97, 107>>) \o ZeroBytes(8),
  BoxHeader(0, MDAT) \o ZeroBytes(4),
  BoxHeader(1, MDAT) \o Be32(0) \o Be32(24) \o ZeroBytes(8),
  BoxHeader(1, MDAT) \o Be32(0),
  BoxHeader(4, FREE),
  BoxHeader(8, <<0, 0, 0, 1>>),
  BoxHeader(4096, MDAT) \o ZeroBytes(4),
  <<0, 0, 0>>,
  BoxHeader(0, MOOV),
  BoxHeader(1, MOOV) \o Be32(0) \o Be32(8) }

RECURSIVE BoxBuffersOf(_)
\* the buffers of at most n pieces
BoxBuffersOf(n) ==
  IF n = 0 THEN {<<>>}
  ELSE BoxBuffersOf(n - 1) \cup {b \o p : b \in BoxBuffersOf(n - 1), p \in BoxPieces}

InitBoxes ==
  /\ ScanIdle
  /\ DetectIdle
  /\ RecoverIdle
  /\ ServiceIdle
  /\ bpc = "start"
  /\ bData \in BoxBuffersOf(MaxBoxes)
  /\ bBoxes = <<>>

\* parseMP4Boxes(data)
ParseBuffer ==
  /\ bpc = "start"
  /\ bBoxes' = parseMP4Boxes(bData, 0, Len(bData))
  /\ bpc' = "parsed"
  /\ UNCHANGED bData
  /\ UNCHANGED scanVars
  /\ UNCHANGED detectVars
  /\ UNCHANGED recoverVars
  /\ UNCHANGED serviceVars

NextBoxes == ParseBuffer

SpecBoxes == InitBoxes /\ [][NextBoxes]_vars

(***************************************************************************)
(* startScan and cancelCurrentScan: the scan service and the store         *)
(*                                                                         *)
(* runs[s] is the s-th call of startScan: its AbortController is named by  *)
(* s, and currentScanAbortController = 0 is null.  storeWrites records     *)
(* every setter a call of startScan invoked and whether the call had been  *)
(* superseded (cancelCurrentScan or a later startScan had run) by then.    *)
(***************************************************************************)

\* how many times startScan is called
MaxScans == 2

\* a CacheFileEntry of a selected directory
DirFile(name, mtime) == [name |-> name, size |-> 10, modified_at |-> mtime]

\* the standalone files detection finds in the directories the user may select
Detected ==
  [dirA |-> << [file |-> DirFile(BlockName(49, 56), 7), fileType |-> "jpeg"],
               [file |-> DirFile(SimpleName(97, 115), 6), fileType |-> "mp4_complete"] >>,
   dirB |-> << [file |-> DirFile(BlockName(50, 48), 9), fileType |-> "jpeg"] >>]

\* the selections startScan is called with (Start Scan is disabled on an empty one)
SelectedPathChoices == {<<"dirA">>, <<"dirB">>, <<"dirA", "dirB">>}

\* the results of an awaited backend read inside scanCacheFolder
ReadOutcomes == {"ok", "rejected"}

\* useAppStore.getState().<setter>(value), made by call s of startScan
Set(w, s, setter, field, value) ==
  [store |-> [w.store EXCEPT ![field] = value],
   writes |-> w.writes \cup {[run |-> s, setter |-> setter, late |-> s \in superseded]}]

\* a progress callback that does not look at the signal
onProgress_Unguarded(w, s, aborted, phase) ==
  Set(w, s, "setScanProgress", "scanProgress", phase)

\* the progress callback startScan hands to scanCacheFolder
onProgress(w, s, aborted, phase) ==
  IF ~aborted THEN Set(w, s, "setScanProgress", "scanProgress", phase) ELSE w

\* the end of the try block: the results go to the store
Publish(w, s, aborted, allResources) ==
  IF ~aborted
  THEN Set(Set(Set(w, s, "setResources", "resources", allResources),
               s, "setIsScanning", "isScanning", FALSE),
           s, "setScannerStep", "scannerStep", "results")
  ELSE w

\* the catch block
CatchScan(w, s, aborted) ==
  IF ~aborted THEN Set(w, s, "setIsScanning", "isScanning", FALSE) ELSE w

\* the finally block: does call s clear the module's controller and flag
FinallyClears(s) == currentScanAbortController = s

\* the resources scanCacheFolder returns for a directory
scanCacheFolder(path) == StandaloneResources(Detected[path])

\* is call s inside scanCacheFolder (reading, detecting, grouping, thumbnailing)
InScanCacheFolder(s) == runs[s].pc \in {"listing", "detecting", "thumbnails"}

\* the state after call s took a step: w holds the store and the write log
ServiceStep(s, run, w, clears) ==
  /\ runs' = [runs EXCEPT ![s] = run]
  /\ store' = w.store
  /\ storeWrites' = w.writes
  /\ currentScanAbortController' = IF clears THEN 0 ELSE currentScanAbortController
  /\ isScanRunning' = IF clears THEN FALSE ELSE isScanRunning
  /\ UNCHANGED superseded
  /\ UNCHANGED scanVars
  /\ UNCHANGED detectVars
  /\ UNCHANGED recoverVars
  /\ UNCHANGED boxVars

\* the store and the log of its writes before the step
StoreNow == [store |-> store, writes |-> storeWrites]

\* cancelCurrentScan(): the runs after the abort of the current controller
Cancelled ==
  IF currentScanAbortController # 0
  THEN [runs EXCEPT ![currentScanAbortController].aborted = TRUE]
  ELSE runs

\* startScan(selectedPaths), up to the first await inside scanCacheFolder
StartScan ==
  /\ Len(runs) < MaxScans
  /\ \E selectedPaths \in SelectedPathChoices :
       LET s == Len(runs) + 1
           w == onProgress(StoreNow, s, FALSE, "listing")
       IN /\ runs' = Append(Cancelled,
                            [pc |-> "listing", selectedPaths |-> selectedPaths, at |-> 1,
                             aborted |-> FALSE, allResources |-> <<>>,
                             began |-> {}])
          /\ superseded' = 1..Len(runs)
          /\ currentScanAbortController' = s
          /\ isScanRunning' = TRUE
          /\ store' = w.store
          /\ storeWrites' = w.writes
  /\ UNCHANGED scanVars
  /\ UNCHANGED detectVars
  /\ UNCHANGED recoverVars
  /\ UNCHANGED boxVars

\* ScanProgress.handleCancel: cancelCurrentScan(), then the store goes back to "select"
HandleCancel ==
  /\ runs # <<>>
  /\ runs' = Cancelled
  /\ superseded' = 1..Len(runs)
  /\ currentScanAbortController' = 0
  /\ isScanRunning' = FALSE
  /\ store' = [store EXCEPT !.isScanning = FALSE, !.scannerStep = "select"]
  /\ UNCHANGED storeWrites
  /\ UNCHANGED scanVars
  /\ UNCHANGED detectVars
  /\ UNCHANGED recoverVars
  /\ UNCHANGED boxVars

\* a phase of scanCacheFolder begins in call s: noted with the state of its signal
Begin(run, phase) ==
  [run EXCEPT !.pc = phase,
              !.began = @ \cup {[phase |-> phase, at |-> run.at, aborted |-> run.aborted]}]

\* an awaited read of scanCacheFolder rejects: catch, then finally
Rejected(s) ==
  ServiceStep(s, [runs[s] EXCEPT !.pc = "ended"], CatchScan(StoreNow, s, runs[s].aborted),
              FinallyClears(s))

\* list_cache_files returns: detection begins
Listed ==
  \E s \in 1..Len(runs) :
    /\ runs[s].pc = "listing"
    /\ \E outcome \in ReadOutcomes :
         IF outcome = "ok"
         THEN ServiceStep(s, Begin(runs[s], "detecting"),
                          onProgress(StoreNow, s, runs[s].aborted, "detecting"), FALSE)
         ELSE Rejected(s)

\* the header reads return: grouping runs, the thumbnails begin
DetectedAll ==
  \E s \in 1..Len(runs) :
    /\ runs[s].pc = "detecting"
    /\ \E outcome \in ReadOutcomes :
         IF outcome = "ok"
         THEN ServiceStep(s, Begin(Begin(runs[s], "grouping"), "thumbnails"),
                          onProgress(onProgress(StoreNow, s, runs[s].aborted, "grouping"),
                                     s, runs[s].aborted, "thumbnails"), FALSE)
         ELSE Rejected(s)

\* scanCacheFolder returns: the push, then the loop head, the next directory or the end
FolderScanned ==
  \E s \in 1..Len(runs) :
    /\ runs[s].pc = "thumbnails"
    /\ LET run == runs[s]
           w1 == onProgress(StoreNow, s, run.aborted, "done")
           all == IF ~run.aborted
                  THEN run.allResources \o scanCacheFolder(run.selectedPaths[run.at])
                  ELSE run.allResources
       IN IF run.at < Len(run.selectedPaths) /\ ~run.aborted
          THEN ServiceStep(s, Begin([run EXCEPT !.at = @ + 1, !.allResources = all],
                                    "listing"),
                           onProgress(w1, s, run.aborted, "listing"), FALSE)
          ELSE ServiceStep(s, [run EXCEPT !.pc = "ended", !.allResources = all],
                           Publish(w1, s, run.aborted, all), FinallyClears(s))

InitService ==
  /\ ScanIdle
  /\ DetectIdle
  /\ RecoverIdle
  /\ BoxIdle
  /\ ServiceIdle

NextService ==
  \/ StartScan
  \/ HandleCancel
  \/ Listed
  \/ DetectedAll
  \/ FolderScanned

SpecService == InitService /\ [][NextService]_vars

(***************************************************************************)
(* C10                                                                     *)
(***************************************************************************)

\* C10 as stated: for every buffer b and every tail t, detectFileType(b) equals
\* detectFileType(b followed by t), whatever the length of b
C10_AnyLength == dpc = "done" => dResult = dTailResult

\* C10: for every buffer b of at least 189 bytes (past the second MPEG-TS sync
\* byte) and every tail t, detectFileType(b) equals detectFileType(b followed by t)
C10_PrefixStable ==
  (dpc = "done" /\ Len(dHeader) >= TsSyncOffset + 1) => dResult = dTailResult

\* a transport stream of 189 bytes or more was detected before and after a tail
C10_Witness ==
  /\ dpc = "done"
  /\ Len(dHeader) >= TsSyncOffset + 1
  /\ dTail # <<>>
  /\ dResult = "mpeg_ts"
  /\ dTailResult = "mpeg_ts"

(***************************************************************************)
(* C11, C12                                                                *)
(***************************************************************************)

\* C11: a buffer whose first two bytes are FF F1 is detected as aac
C11_AdtsF1IsAac ==
  (dpc = "done" /\ Len(dHeader) >= 2 /\ Slice(dHeader, 0, 2) = <<255, 241>>)
    => dResult = "aac"

\* the kind the major brand bytes 8..12 stand for, compared as four characters
StatedBrandKind(brand) ==
  IF brand \in {<<77, 52, 65, 32>>, <<109, 52, 97, 32>>,
                <<77, 52, 66, 32>>, <<77, 52, 80, 32>>} THEN "m4a"
  ELSE IF brand = <<113, 116, 32, 32>> THEN "mov"
  ELSE IF brand \in {<<97, 118, 105, 102>>, <<97, 118, 105, 115>>} THEN "avif"
  ELSE IF brand \in {<<104, 101, 105, 99>>, <<104, 101, 118, 99>>,
                     <<109, 105, 102, 49>>, <<109, 115, 102, 49>>} THEN "heic"
  ELSE "mp4_complete"

\* a buffer that starts with an ftyp box of 8 to 512 bytes and matches no entry
\* of the signature table
IsFtypBuffer(h) ==
  /\ Len(h) >= 12
  /\ Slice(h, 4, 8) = FTYP
  /\ Int32FromBytes(h[1], h[2], h[3], h[4]) >= 8
  /\ Int32FromBytes(h[1], h[2], h[3], h[4]) <= 512
  /\ FirstSig(h, 1) = 0

\* C12: a buffer that starts with an ftyp box of 8 to 512 bytes is detected by
\* its major brand: M4A , m4a , M4B , M4P  give m4a, qt   gives mov, avif and avis
\* give avif, heic, hevc, mif1 and msf1 give heic, any other brand mp4_complete
C12_BrandDecidesKind ==
  (dpc = "done" /\ IsFtypBuffer(dHeader))
    => dResult = StatedBrandKind(Slice(dHeader, 8, 12))

(***************************************************************************)
(* The list scanCacheFolder returns                                        *)
(***************************************************************************)

\* a Blockfile name: f_ followed by six hexadecimal digits
IsBlockHexName(name) ==
  /\ Len(name) = 8
  /\ name[1] = 102
  /\ name[2] = 95
  /\ \A i \in 3..8 : HexDigitValue(name[i]) >= 0

\* a Simple Cache name: sixteen lowercase hexadecimal digits, then _0, _1 or _s
IsSimpleName(name) == parseSimpleCacheHash(name) # <<>>

\* the resources of the returned list that hold a file of this name
Holders(name) ==
  {r \in 1..Len(resources) :
     \E k \in 1..Len(resources[r].files) : resources[r].files[k].name = name}

\* the positions of a name in the files of the r-th resource
Positions(r, name) ==
  {k \in 1..Len(resources[r].files) : resources[r].files[k].name = name}

\* the r-th resource is of a kind held in one file
IsSingleFileKind(kind) ==
  \/ getMediaCategory(kind) = "image"
  \/ kind \in {"mp4_complete", "mp4_header_only"}

(***************************************************************************)
(* C1                                                                      *)
(***************************************************************************)

\* C1: every listed file named f_ plus six hex digits is held by exactly one
\* resource of the returned list, at exactly one position of its files
C1_EachHexFileOnce ==
  pc = "done" =>
    \A i \in 1..Len(files) :
      IsBlockHexName(files[i].name) =>
        /\ Cardinality(Holders(files[i].name)) = 1
        /\ \A r \in Holders(files[i].name) : Cardinality(Positions(r, files[i].name)) = 1

\* a returned list with a chunked MP4 of three files or more, a standalone
\* Blockfile image and an unknown_data tail
C1_Witness ==
  /\ pc = "done"
  /\ \E r \in 1..Len(resources) :
        resources[r].resourceType = "mp4_chunked" /\ Len(resources[r].files) >= 3
  /\ \E r \in 1..Len(resources) :
        resources[r].resourceType = "jpeg" /\ IsBlockHexName(resources[r].files[1].name)
  /\ \E r \in 1..Len(resources) : resources[r].resourceType = "unknown_data"

(***************************************************************************)
(* C5                                                                      *)
(***************************************************************************)

\* C5: every resource of the returned list has totalSize equal to the sum of the
\* sizes of its files
C5_TotalSizeIsSum ==
  pc = "done" =>
    \A r \in 1..Len(resources) :
      resources[r].totalSize =
        SumSeq([k \in 1..Len(resources[r].files) |-> resources[r].files[k].size])

\* a returned list with a standalone resource, a chunked MP4, a header-only MP4
\* fallback, a sparse resource and an unknown_data tail of two files or more
C5_Witness ==
  /\ pc = "done"
  /\ \E r \in 1..Len(resources) :
        resources[r].resourceType = "mp4_chunked" /\ Len(resources[r].files) >= 3
  /\ \E r \in 1..Len(resources) :
        /\ resources[r].resourceType = "mp4_header_only"
        /\ IsBlockHexName(resources[r].files[1].name)
  /\ \E r \in 1..Len(resources) :
        resources[r].resourceType = "unknown_data" /\ Len(resources[r].files) >= 2

\* a sparse resource whose size is the reassembled size, not the size on disk
C5_SparseCase ==
  /\ pc = "done"
  /\ \E r \in 1..Len(resources) : \E i \in 1..Len(files) :
        /\ IsSimpleName(files[i].name)
        /\ resources[r].files[1].name = files[i].name
        /\ resources[r].files[1].size # files[i].size

(***************************************************************************)
(* C6                                                                      *)
(***************************************************************************)

\* C6: an mp4_chunked resource has two files or more, its first file is the MP4
\* header and headerFile is that file's name; a resource of a single-file kind
\* (an image kind, mp4_complete, mp4_header_only) has exactly one file
C6_FileCounts ==
  pc = "done" =>
    \A r \in 1..Len(resources) :
      /\ resources[r].resourceType = "mp4_chunked" =>
            /\ Len(resources[r].files) >= 2
            /\ resources[r].headerFile = resources[r].files[1].name
            /\ IsMP4Variant(detectFileType(ReadFileHeader(resources[r].files[1],
                                                          HeaderReadSize)))
      /\ IsSingleFileKind(resources[r].resourceType) => Len(resources[r].files) = 1

\* a returned list with a chunked MP4, an image, a complete MP4 and a header-only MP4
C6_Witness ==
  /\ pc = "done"
  /\ \E r \in 1..Len(resources) : resources[r].resourceType = "mp4_chunked"
  /\ \E r \in 1..Len(resources) : resources[r].resourceType = "mp4_header_only"
  /\ \E r \in 1..Len(resources) :
        resources[r].resourceType \in {"jpeg", "png", "mp4_complete"}

(***************************************************************************)
(* C3, C4                                                                  *)
(***************************************************************************)

\* the entries of the walk that are MP4 headers holding an mdat box
MdatOf(i) ==
  FindBox(parseMP4Boxes(blockfileEntries[i].mp4Data, 0, Len(blockfileEntries[i].mp4Data)),
          MDAT)

MdatHeaders ==
  {i \in 1..Len(blockfileEntries) :
     blockfileEntries[i].fileType = "mp4_header_only" /\ MdatOf(i) # <<>>}

\* the names of the files claimed by the chunked resources of earlier headers
ClaimedBefore(i) ==
  UNION {{resources[r].files[k].name : k \in 1..Len(resources[r].files)} :
           r \in {q \in 1..Len(resources) :
                    /\ resources[q].resourceType = "mp4_chunked"
                    /\ \E j \in 1..(i - 1) :
                         /\ blockfileEntries[j].fileType = "mp4_header_only"
                         /\ resources[q].headerFile = blockfileEntries[j].file.name}}

\* the continuation entries inside the hex window of header i, not yet claimed,
\* in ascending hex order and cut to the first max_chunks
ExpectedChunks(i) ==
  LET dataLen == Len(blockfileEntries[i].mp4Data)
      idx == SelectSeq([j \in 1..Len(blockfileEntries) |-> j],
               LAMBDA j :
                 /\ isContinuationChunk(blockfileEntries[j].fileType)
                 /\ blockfileEntries[j].file.name \notin ClaimedBefore(i)
                 /\ blockfileEntries[j].hex > blockfileEntries[i].hex
                 /\ blockfileEntries[j].hex <=
                      blockfileEntries[i].hex + HexRange(MdatOf(i)[1], dataLen))
  IN [k \in 1..Min(Len(idx), MaxChunks(MdatOf(i)[1], dataLen)) |->
        blockfileEntries[idx[k]].file]

\* the one resource holding the header of entry i has this kind and these files
HeaderEmittedAs(i, kind, fs) ==
  /\ Cardinality(Holders(blockfileEntries[i].file.name)) = 1
  /\ \A r \in Holders(blockfileEntries[i].file.name) :
        resources[r].resourceType = kind /\ resources[r].files = fs

\* every listed Blockfile file detected as standalone media is a resource of its own
StandaloneMediaAlone ==
  \A i \in 1..Len(files) :
    (/\ IsBlockHexName(files[i].name)
     /\ BlockfileClass(files[i]) = "standalone"
     /\ BlockfileStandaloneType(files[i]) \notin {"mp4_fragment", "webm_continuation"}) =>
      /\ Cardinality(Holders(files[i].name)) = 1
      /\ \A r \in Holders(files[i].name) :
            /\ resources[r].files = <<files[i]>>
            /\ resources[r].resourceType = BlockfileStandaloneType(files[i])

\* C3 as stated: an MP4 header holding an mdat box always yields an mp4_chunked
\* resource of the header and the expected chunks
C3_AlwaysChunked ==
  pc = "done" =>
    /\ \A i \in MdatHeaders :
          HeaderEmittedAs(i, "mp4_chunked", <<blockfileEntries[i].file>> \o ExpectedChunks(i))
    /\ StandaloneMediaAlone

\* C3: an MP4 header holding an mdat box yields one mp4_chunked resource of the
\* header followed by the unclaimed continuation files of its hex window, ascending
\* and cut to max_chunks, when there is such a file, and one mp4_header_only resource
\* of the header alone when there is none; standalone media inside the window is a
\* single-file resource of its own
C3_ChunkedWhenChunks ==
  pc = "done" =>
    /\ \A i \in MdatHeaders :
          IF ExpectedChunks(i) # <<>>
          THEN HeaderEmittedAs(i, "mp4_chunked",
                               <<blockfileEntries[i].file>> \o ExpectedChunks(i))
          ELSE HeaderEmittedAs(i, "mp4_header_only", <<blockfileEntries[i].file>>)
    /\ StandaloneMediaAlone

\* a header with more candidates than max_chunks and an image inside its window
C3_Witness ==
  /\ pc = "done"
  /\ \E i \in MdatHeaders :
        /\ Len(ExpectedChunks(i)) = MaxChunks(MdatOf(i)[1], Len(blockfileEntries[i].mp4Data))
        /\ \E r \in 1..Len(resources) :
              /\ resources[r].resourceType = "unknown_data"
              /\ parseCacheHex(resources[r].files[1].name)[1] <=
                   blockfileEntries[i].hex
                     + HexRange(MdatOf(i)[1], Len(blockfileEntries[i].mp4Data))
        /\ \E r \in 1..Len(resources) :
              /\ resources[r].resourceType = "jpeg"
              /\ IsBlockHexName(resources[r].files[1].name)
              /\ parseCacheHex(resources[r].files[1].name)[1] > blockfileEntries[i].hex
              /\ parseCacheHex(resources[r].files[1].name)[1] <=
                   blockfileEntries[i].hex
                     + HexRange(MdatOf(i)[1], Len(blockfileEntries[i].mp4Data))

\* the hex of the k-th file of the r-th resource
FileHex(r, k) == parseCacheHex(resources[r].files[k].name)[1]

\* hex_range as C4 states it, from the header file of the r-th resource
StatedHexRange(r) ==
  LET data == ReadFileBytes(resources[r].files[1])
      mdat == FindBox(parseMP4Boxes(data, 0, Len(data)), MDAT)[1]
  IN IF mdat.offset + mdat.size >= Len(data)
     THEN MaxChunks(mdat, Len(data)) + 10
     ELSE MaxChunks(mdat, Len(data)) * 2

\* the hexes of the r-th resource lie above the header's, inside its window
InStatedWindow(r) ==
  \A k \in 2..Len(resources[r].files) :
    FileHex(r, k) > FileHex(r, 1) /\ FileHex(r, k) <= FileHex(r, 1) + StatedHexRange(r)

\* C4 as stated: in an mp4_chunked resource files[0] has the smallest hex and the
\* hexes of the following files are strictly increasing, inside the window
C4_StrictlyIncreasing ==
  pc = "done" =>
    \A r \in 1..Len(resources) :
      resources[r].resourceType = "mp4_chunked" =>
        /\ InStatedWindow(r)
        /\ \A k \in 3..Len(resources[r].files) : FileHex(r, k - 1) < FileHex(r, k)

\* C4: in an mp4_chunked resource files[0] has the smallest hex, the hexes of the
\* following files never decrease (two names may parse to one hex) and each is at
\* most files[0].hex + hex_range
C4_NonDecreasing ==
  pc = "done" =>
    \A r \in 1..Len(resources) :
      resources[r].resourceType = "mp4_chunked" =>
        /\ InStatedWindow(r)
        /\ \A k \in 3..Len(resources[r].files) : FileHex(r, k - 1) <= FileHex(r, k)

\* a chunked resource of three files or more, next to a continuation file just
\* past its window that was left out
C4_Witness ==
  /\ pc = "done"
  /\ \E r \in 1..Len(resources) :
        /\ resources[r].resourceType = "mp4_chunked"
        /\ Len(resources[r].files) >= 3
        /\ \E q \in 1..Len(resources) :
              /\ resources[q].resourceType = "unknown_data"
              /\ \E k \in 1..Len(resources[q].files) :
                    parseCacheHex(resources[q].files[k].name)[1]
                      = FileHex(r, 1) + StatedHexRange(r) + 1

(***************************************************************************)
(* C2                                                                      *)
(***************************************************************************)

\* the kind Phase 2b detects for a Blockfile file
KindOfBlock(file) ==
  IF BlockfileClass(file) = "standalone" THEN BlockfileStandaloneType(file)
  ELSE IF BlockfileClass(file) = "mp4Header" THEN "mp4_header_only"
  ELSE Null

\* the listed Blockfile files of continuation class that follow the listed header h
\* within 500 hex values, up to the next media header
Following(h) ==
  {c \in 1..Len(files) :
     /\ IsBlockHexName(files[c].name)
     /\ isContinuationChunk(KindOfBlock(files[c]))
     /\ parseCacheHex(files[c].name)[1] > parseCacheHex(files[h].name)[1]
     /\ parseCacheHex(files[c].name)[1] <= parseCacheHex(files[h].name)[1] + GroupHexGap
     /\ ~\E m \in 1..Len(files) :
           /\ IsBlockHexName(files[m].name)
           /\ isMediaHeader(KindOfBlock(files[m]))
           /\ parseCacheHex(files[m].name)[1] > parseCacheHex(files[h].name)[1]
           /\ parseCacheHex(files[m].name)[1] < parseCacheHex(files[c].name)[1]}

\* C2: a listed Blockfile file of a non-MP4 media header kind that is followed by
\* continuation files is the first file of one resource of its kind, whose other
\* files are exactly those continuation files, in ascending hex order
C2_NonMP4HeaderGroups ==
  pc = "done" =>
    \A h \in 1..Len(files) :
      (/\ IsBlockHexName(files[h].name)
       /\ KindOfBlock(files[h]) \in AUDIO_HEADER_TYPES \cup VIDEO_HEADER_TYPES
       /\ Following(h) # {}) =>
        \E r \in 1..Len(resources) :
          /\ resources[r].resourceType = KindOfBlock(files[h])
          /\ resources[r].files[1] = files[h]
          /\ {resources[r].files[k] : k \in 2..Len(resources[r].files)}
               = {files[c] : c \in Following(h)}
          /\ Len(resources[r].files) = 1 + Cardinality(Following(h))
          /\ \A k \in 3..Len(resources[r].files) : FileHex(r, k - 1) <= FileHex(r, k)

(***************************************************************************)
(* C7, C8, C9                                                              *)
(***************************************************************************)

\* the hash group of a Simple Cache file name
GroupOf(name) ==
  simpleCacheMap[CHOOSE g \in 1..Len(simpleCacheMap) :
                   simpleCacheMap[g].hash = parseSimpleCacheHash(name)[1].hash]

\* the groups whose _s file is present with size > 0
SparseGroups ==
  {g \in 1..Len(simpleCacheMap) :
     simpleCacheMap[g].fileS # <<>> /\ simpleCacheMap[g].fileS[1].size > 0}

\* the signature kind of the first 256 bytes of a file's data
SignatureOf(file) == detectFileType(ReadFileHeader(file, HeaderReadSize))

\* the sparse data of the group was read and recognised: more than 8 bytes of
\* header, and a signature kind or a Content-Type kind from the _0 file
SparseRecognised(g) ==
  /\ simpleCacheMap[g].hash \notin sparseFailed
  /\ Len(ReadFileHeader(simpleCacheMap[g].fileS[1], HeaderReadSize)) > 8
  /\ \/ SignatureOf(simpleCacheMap[g].fileS[1]) # Null
     \/ ContentTypeKind(simpleCacheMap[g].file0) # Null

\* no resource holds the file, if the group has it
NotEmitted(slot) == slot # <<>> => Holders(slot[1].name) = {}

\* at most one resource holds the file, as its only file
AloneIfEmitted(slot) ==
  slot # <<>> =>
    /\ Cardinality(Holders(slot[1].name)) <= 1
    /\ \A r \in Holders(slot[1].name) : Len(resources[r].files) = 1

FromSignature(sig, file) ==
  IF IsMP4Variant(sig) THEN RefineMP4(ReadFileBytes(file)) ELSE sig

\* the kind a body gets from the Content-Type of the _0 file of its group
FromContentType(file) ==
  LET ct == ContentTypeKind(GroupOf(file.name).file0)
  IN IF ct = Null THEN Null
     ELSE IF IsMP4ContentKind(ct) THEN RefineMP4(ReadFileBytes(file)) ELSE ct

\* the resources whose file is a Simple Cache file
SimpleResources ==
  {r \in 1..Len(resources) : IsSimpleName(resources[r].files[1].name)}

\* C8: the kind of a Simple Cache resource is the kind of its body's signature (an
\* MP4 signature refined by the box walk) whenever the body has one; it is the kind
\* mapped from the Content-Type only when the body has no signature
C8_SignatureBeforeContentType ==
  pc = "done" =>
    \A r \in SimpleResources :
      IF SignatureOf(resources[r].files[1]) # Null
      THEN resources[r].resourceType =
             FromSignature(SignatureOf(resources[r].files[1]), resources[r].files[1])
      ELSE /\ FromContentType(resources[r].files[1]) # Null
           /\ resources[r].resourceType = FromContentType(resources[r].files[1])

\* a resource whose body has a signature and whose group has a Content-Type that
\* maps to another kind, and a resource whose kind came from the Content-Type
C8_Witness ==
  /\ pc = "done"
  /\ \E r \in SimpleResources :
        /\ SignatureOf(resources[r].files[1]) # Null
        /\ FromContentType(resources[r].files[1]) # Null
        /\ FromContentType(resources[r].files[1]) # resources[r].resourceType
  /\ \E r \in SimpleResources : SignatureOf(resources[r].files[1]) = Null

\* neither a signature nor the Content-Type gives the group a kind
Undetectable(g) ==
  /\ ContentTypeKind(simpleCacheMap[g].file0) = Null
  /\ simpleCacheMap[g].file0 # <<>> => SignatureOf(simpleCacheMap[g].file0[1]) = Null
  /\ g \in SparseGroups => SignatureOf(simpleCacheMap[g].fileS[1]) = Null

\* C9: a Simple Cache file is never in the unknown_data tail nor in a resource of
\* several files, a _1 file is in no resource, and a group that neither a signature
\* nor the Content-Type identifies gives no resource
C9_SimpleCacheNeverChunk ==
  pc = "done" =>
    /\ \A r \in 1..Len(resources) : \A k \in 1..Len(resources[r].files) :
          IsSimpleName(resources[r].files[k].name) =>
            /\ Len(resources[r].files) = 1
            /\ resources[r].resourceType # "unknown_data"
            /\ parseSimpleCacheHash(resources[r].files[k].name)[1].stream # 49
    /\ \A g \in 1..Len(simpleCacheMap) :
          Undetectable(g) =>
            /\ NotEmitted(simpleCacheMap[g].file0)
            /\ NotEmitted(simpleCacheMap[g].file1)
            /\ NotEmitted(simpleCacheMap[g].fileS)

\* a listing with a _1 file of recognisable data, an unidentifiable group with a _0
\* file, a Simple Cache resource and an unknown_data tail
C9_Witness ==
  /\ pc = "done"
  /\ \E g \in 1..Len(simpleCacheMap) :
        /\ simpleCacheMap[g].file1 # <<>>
        /\ SignatureOf(simpleCacheMap[g].file1[1]) # Null
  /\ \E g \in 1..Len(simpleCacheMap) :
        Undetectable(g) /\ simpleCacheMap[g].file0 # <<>>
  /\ \E r \in 1..Len(resources) : resources[r].resourceType = "unknown_data"

(***************************************************************************)
(* C13                                                                     *)
(***************************************************************************)

\* the index of the Simple Cache group a name belongs to, in map-iteration order
GroupIndexOf(name) ==
  CHOOSE g \in 1..Len(simpleCacheMap) :
    simpleCacheMap[g].hash = parseSimpleCacheHash(name)[1].hash

\* the position of a name in the listing
ListingIndexOf(name) == CHOOSE k \in 1..Len(files) : files[k].name = name

\* the resources of the returned list that are neither Simple Cache resources nor
\* the unknown_data tail
BlockfileResources ==
  {r \in 1..Len(resources) :
     /\ ~IsSimpleName(resources[r].files[1].name)
     /\ resources[r].resourceType # "unknown_data"}

\* the unknown_data resource, when there is one, is the last of the list, and the
\* Simple Cache resources come before every other one, in map-iteration order
SimpleFirstTailLast ==
  /\ \A r \in 1..Len(resources) :
        resources[r].resourceType = "unknown_data" => r = Len(resources)
  /\ \A r \in SimpleResources : \A q \in 1..Len(resources) :
        /\ q \notin SimpleResources => r < q
        /\ (q \in SimpleResources /\ r < q) =>
              GroupIndexOf(resources[r].files[1].name)
                < GroupIndexOf(resources[q].files[1].name)

\* C13 as stated: Simple Cache resources first in map-iteration order, then all
\* Blockfile resources in ascending order of their first file's hex, and the
\* unknown_data tail last
C13_BlockfileInHexOrder ==
  pc = "done" =>
    /\ SimpleFirstTailLast
    /\ \A r \in BlockfileResources : \A q \in BlockfileResources :
          r < q => FileHex(r, 1) <= FileHex(q, 1)

\* the resources the walk emits for MP4 headers
IsHeaderResource(r) ==
  /\ r \in BlockfileResources
  /\ resources[r].resourceType \in {"mp4_chunked", "mp4_header_only"}

\* C13: Simple Cache resources come first in map-iteration order, then the
\* single-file resources of the recognised other files in listing order, then the
\* resources of the MP4 headers in ascending order of the header's hex, and the
\* unknown_data tail, when present, is the last element
C13_EmissionOrder ==
  pc = "done" =>
    /\ SimpleFirstTailLast
    /\ \A r \in BlockfileResources : \A q \in BlockfileResources :
          r < q =>
            /\ IsHeaderResource(r) => IsHeaderResource(q)
            /\ (IsHeaderResource(r) /\ IsHeaderResource(q)) =>
                  FileHex(r, 1) <= FileHex(q, 1)
            /\ (~IsHeaderResource(r) /\ ~IsHeaderResource(q)) =>
                  /\ Len(resources[r].files) = 1
                  /\ ListingIndexOf(resources[r].files[1].name)
                       < ListingIndexOf(resources[q].files[1].name)

\* a returned list with a Simple Cache resource, then a recognised Blockfile file,
\* then the resource of an MP4 header of a smaller hex, and the unknown_data tail
C13_Witness ==
  /\ pc = "done"
  /\ SimpleResources # {}
  /\ \E r \in BlockfileResources : \E q \in BlockfileResources :
        /\ r < q
        /\ ~IsHeaderResource(r)
        /\ IsHeaderResource(q)
        /\ FileHex(r, 1) > FileHex(q, 1)
  /\ resources[Len(resources)].resourceType = "unknown_data"

(***************************************************************************)
(* C14                                                                     *)
(***************************************************************************)

\* the copy, the assembly or a run of the tool raised an error for a resource
Raised(c) ==
  /\ c.i >= 1
  /\ \/ /\ c.op \in {"copy_file", "copy_sparse_file", "reconstruct_chunked_mp4",
                     "concat_files"}
        /\ c.result # "ok"
     \/ /\ c.op \in {"ffmpegReEncode", "ffmpegRemux", "convertGifToMp4",
                     "generateThumbnail"}
        /\ c.result = "threw"

\* the resources the loop has announced, in the order of the announcements
Announced == SelectSeq(emitted, LAMBDA e : e.via = "loop")

\* the loop is over
LoopOver == rpc \in {"join", "complete", "returned"}

\* C14: an error raised by the copy, the assembly or a run of the tool for resource i
\* has an entry in errors with the display name and the source path of resource i, the
\* resources are announced in the supplied order without a gap, and once the loop is
\* over every resource has been announced and every resource of a kind the loop
\* handles has had its first command called, whatever happened to the earlier ones
C14_ErrorRecordedBatchGoesOn ==
  /\ \A k \in 1..Len(calls) :
       Raised(calls[k]) =>
         \E j \in 1..Len(rerrors) :
           /\ rerrors[j].displayName = batch[calls[k].i].displayName
           /\ rerrors[j].src = <<batch[calls[k].i].files[1].path>>
           /\ Includes(ErrorText(rerrors[j]), batch[calls[k].i].displayName)
           /\ Includes(ErrorText(rerrors[j]), batch[calls[k].i].files[1].path.name)
  /\ \A k \in 1..Len(Announced) : Announced[k].current = k
  /\ LoopOver =>
       /\ Len(Announced) = Len(batch)
       /\ \A i \in 1..Len(batch) :
            BranchOf(batch[i]) # "flush" =>
              \E k \in 1..Len(calls) :
                /\ calls[k].i = i
                /\ calls[k].op \in {"copy_file", "copy_sparse_file",
                                    "reconstruct_chunked_mp4", "concat_files"}

\* the first of two resources failed and the second was recovered
C14_Witness ==
  /\ rpc = "returned"
  /\ Len(batch) = 2
  /\ \E k \in 1..Len(calls) : Raised(calls[k]) /\ calls[k].i = 1
  /\ \E k \in 1..Len(calls) : calls[k].i = 2 /\ calls[k].result = "ok"
  /\ Len(rerrors) = 1

(***************************************************************************)
(* C15                                                                     *)
(***************************************************************************)

\* the call of recoverResources is over: it returned, or it was rejected
Ended == rpc \in {"returned", "thrown"}

\* the emissions with phase complete
Completions == SelectSeq(emitted, LAMBDA e : e.phase = "complete")

\* C15: a call of recoverResources that is over has returned without throwing and has
\* emitted exactly one progress object with phase complete, as its last emission,
\* carrying the accumulated log and errors, whichever of its steps failed
C15_AlwaysCompletes ==
  Ended =>
    /\ rpc = "returned"
    /\ Len(Completions) = 1
    /\ emitted[Len(emitted)].phase = "complete"
    /\ progress = <<Progress(Len(batch), Len(batch), <<>>, "complete", rlog, rerrors)>>

(***************************************************************************)
(* C16                                                                     *)
(***************************************************************************)

\* C16 as stated: between any two consecutive emissions, the final complete one set
\* aside, at least 150 ms elapse
C16_AllEmissionsThrottled ==
  \A k \in 1..(Len(emitted) - 1) :
    emitted[k + 1].phase # "complete" => emitted[k + 1].at - emitted[k].at >= THROTTLE_MS

\* C16: two consecutive emissions that notifyProgress made both are at least 150 ms
\* apart, and the call does not return without the complete emission as its last one
C16_NotificationsThrottled ==
  /\ \A k \in 1..(Len(emitted) - 1) :
       (emitted[k].via = "notifyProgress" /\ emitted[k + 1].via = "notifyProgress")
         => emitted[k + 1].at - emitted[k].at >= THROTTLE_MS
  /\ rpc = "returned" => emitted[Len(emitted)].via = "complete"

\* notifyProgress emitted twice in a row, a log line in between went unannounced, and
\* the complete emission came less than 150 ms after the emission before it
C16_Witness ==
  /\ rpc = "returned"
  /\ \E k \in 1..(Len(emitted) - 1) :
       emitted[k].via = "notifyProgress" /\ emitted[k + 1].via = "notifyProgress"
  /\ Len(emitted) >= 2
  /\ emitted[Len(emitted)].at - emitted[Len(emitted) - 1].at < THROTTLE_MS
  /\ Len(rlog) > Len(SelectSeq(emitted, LAMBDA e : e.via = "notifyProgress"))

(***************************************************************************)
(* C17                                                                     *)
(***************************************************************************)

\* the entry of errors carries the guidance: its text includes "Full Disk Access"
HasGuidance(e) ==
  Includes(ErrorText(e),
           <<70, 117, 108, 108, 32, 68, 105, 115, 107, 32, 65, 99, 99, 101, 115, 115>>)

\* the entries of errors the catch block pushed for resource i
CaughtFor(i) ==
  {j \in 1..Len(rerrors) : /\ rerrors[j].kind \in {"permission", "failure"}
                           /\ rerrors[j].displayName = batch[i].displayName}

\* C17: a resource whose command was rejected with EPERM (os error 1) has an entry of
\* errors with the Full Disk Access guidance, and one whose command was rejected with
\* EACCES (os error 13) has an entry without it that differs from the report of any
\* other error
C17_EpermGuidanceEaccesPosix ==
  \A k \in 1..Len(calls) :
    Raised(calls[k]) =>
      /\ calls[k].result = "EPERM" =>
           \E j \in CaughtFor(calls[k].i) : HasGuidance(rerrors[j])
      /\ calls[k].result = "EACCES" =>
           \E j \in CaughtFor(calls[k].i) :
             /\ ~HasGuidance(rerrors[j])
             /\ rerrors[j].kind # "failure"

(***************************************************************************)
(* C18                                                                     *)
(***************************************************************************)

\* the tool exited non-zero in the re-encode of a copied video or the remux of an
\* assembled one
ToolFailed(c) ==
  /\ c.i >= 1
  /\ c.op \in {"ffmpegReEncode", "ffmpegRemux"}
  /\ c.result = "exit1"
  /\ BranchOf(batch[c.i]) \in {"copy", "reconstruct"}

\* the raw copy or the raw assembly of resource i is at its output path, and the log
\* has the line of the failure
RawKeptAndLogged(i) ==
  /\ \E f \in outFiles : /\ f.path = OutputPath(batch[i], options)
                         /\ f.holds \in {"raw copy", "raw assembly"}
  /\ \E n \in 1..Len(rlog) : rlog[n] \in {"  Re-encode failed, keeping raw copy",
                                         "  Re-mux failed, keeping raw reconstruction"}

Processed(i) == i < ri \/ (i = ri /\ rpc = "flush")

\* C19: once a webm_mkv resource has been processed its _raw.webm scratch file does
\* not exist, whether the concatenation and the re-encode succeeded or failed
C19_RawScratchGone ==
  \A i \in 1..Len(batch) :
    (batch[i].resourceType = "webm_mkv" /\ Processed(i)) =>
      ~Exists(outFiles, RawPath(OutputPath(batch[i], options)))

(***************************************************************************)
(* C20                                                                     *)
(***************************************************************************)

\* the commands that bring a resource to the output folder and the tool runs that
\* rewrite a video, as called for resource i, in the order of the calls
MainCalls(i) ==
  SelectSeq(calls, LAMBDA c :
    /\ c.i = i
    /\ c.op \in {"copy_file", "copy_sparse_file", "reconstruct_chunked_mp4", "concat_files",
                 "ffmpegReEncode", "ffmpegRemux"})

\* the kinds of video
VideoKinds ==
  {t \in CopiedTypes \cup {"mp4_chunked", "webm_mkv", "unknown_data"} :
     getMediaCategory(t) = "video"}

\* the first command the statement expects for a video, and the tool run after it
FirstStated(resource, out) ==
  IF resource.resourceType = "mp4_chunked"
  THEN [ops |-> {"reconstruct_chunked_mp4"}, from |-> FilePaths(resource), path |-> out]
  ELSE IF resource.resourceType = "webm_mkv"
  THEN [ops |-> {"concat_files"}, from |-> FilePaths(resource), path |-> RawPath(out)]
  ELSE [ops |-> {"copy_file", "copy_sparse_file"}, from |-> <<resource.files[1].path>>,
        path |-> out]

SecondStated(resource, out, opts) ==
  IF resource.resourceType = "mp4_chunked"
  THEN [op |-> "ffmpegRemux", from |-> <<out>>, path |-> RemuxedPath(out)]
  ELSE IF resource.resourceType = "webm_mkv"
  THEN [op |-> "ffmpegReEncode", from |-> <<RawPath(out)>>, path |-> Mp4OutputPath(out, opts)]
  ELSE [op |-> "ffmpegReEncode", from |-> <<out>>, path |-> RemuxedPath(out)]

\* the calls made for a processed video are the stated first command and, when that
\* command did not fail, the stated tool run after it, and nothing else
AsStated(main, first, second) ==
  /\ Len(main) >= 1
  /\ main[1].op \in first.ops
  /\ main[1].from = first.from
  /\ main[1].path = first.path
  /\ IF main[1].result = "ok"
     THEN /\ Len(main) = 2
          /\ main[2].op = second.op
          /\ main[2].from = second.from
          /\ main[2].path = second.path
     ELSE Len(main) = 1

WrittenPath(resource, opts) ==
  IF resource.resourceType = "webm_mkv"
  THEN Mp4OutputPath(OutputPath(resource, opts), opts)
  ELSE OutputPath(resource, opts)

\* the videos of the batch for which errors has no entry
VideosWithoutError ==
  {i \in 1..Len(batch) :
     /\ batch[i].mediaCategory = "video"
     /\ \A j \in 1..Len(rerrors) : rerrors[j].displayName # batch[i].displayName}

\* the runs of ffmpegConcat
ConcatRuns == {k \in 1..Len(calls) : calls[k].op = "ffmpegConcat"}

\* C21: with concatenateVideos set, once the concatenation step is over: the tool ran
\* iff at least two videos have no error; its input holds the written path of every
\* such video and only paths at which recovery left a file, by modifiedAt ascending
C21_ConcatInputsAreWrittenOutputs ==
  (options # <<>> /\ options.concatenateVideos /\ rpc \in {"complete", "returned"}) =>
    /\ (ConcatRuns # {}) <=> (Cardinality(VideosWithoutError) >= 2)
    /\ \A k \in ConcatRuns :
         /\ \A i \in VideosWithoutError :
              \E n \in 1..Len(calls[k].from) :
                calls[k].from[n] = WrittenPath(batch[i], options)
         /\ \A n \in 1..Len(calls[k].from) :
              /\ \E i \in VideosWithoutError :
                   calls[k].from[n] = WrittenPath(batch[i], options)
              /\ \E f \in outFiles : f.path = calls[k].from[n]

(***************************************************************************)
(* C24                                                                     *)
(***************************************************************************)

\* resource i was copied or assembled to its output path
BroughtOut(i) ==
  \E k \in 1..Len(calls) :
    /\ calls[k].i = i
    /\ calls[k].op \in {"copy_file", "copy_sparse_file", "reconstruct_chunked_mp4"}
    /\ calls[k].result = "ok"
    /\ calls[k].path = OutputPath(batch[i], options)

\* C24: a video that was copied or assembled to its output path has a file at that
\* path when its processing is over, whatever the remove and the rename of the
\* replacement did
C24_OutputNeverMissing ==
  \A i \in 1..Len(batch) :
    (batch[i].mediaCategory = "video" /\ BroughtOut(i) /\ Processed(i)) =>
      Exists(outFiles, OutputPath(batch[i], options))

(***************************************************************************)
(* C29                                                                     *)
(***************************************************************************)

\* C29: a processed resource of any kind has a file at its output path (for a WebM
\* converted to MP4, at the path of the conversion) or an entry in errors
C29_FileOrError ==
  \A i \in 1..Len(batch) :
    Processed(i) =>
      \/ Exists(outFiles, OutputPath(batch[i], options))
      \/ Exists(outFiles, WrittenPath(batch[i], options))
      \/ \E j \in 1..Len(rerrors) : rerrors[j].displayName = batch[i].displayName

(***************************************************************************)
(* C25                                                                     *)
(***************************************************************************)

\* C25: a buffer of at least 12 bytes with ftyp at [4..8] and a box size of 8 to 512
\* at [0..4] is detected as avif, heic, m4a, mov or mp4_complete
C25_FtypIsIsoBmff ==
  (dpc = "done" /\ Len(dHeader) >= 12 /\ Slice(dHeader, 4, 8) = FTYP
     /\ Int32FromBytes(dHeader[1], dHeader[2], dHeader[3], dHeader[4]) >= 8
     /\ Int32FromBytes(dHeader[1], dHeader[2], dHeader[3], dHeader[4]) <= 512)
    => dResult \in {"avif", "heic", "m4a", "mov", "mp4_complete"}

(***************************************************************************)
(* C26                                                                     *)
(***************************************************************************)

\* the size a header at 0-based position p stands for, in a range that ends at end
StatedSize(data, p, end) ==
  IF GetUint32(data, p) = 1
  THEN GetUint32(data, p + 8) * 65536 * 65536 + GetUint32(data, p + 12)
  ELSE IF GetUint32(data, p) = 0 THEN end - p
  ELSE GetUint32(data, p)

\* a header at p is well formed: eight bytes are there, the type is four printable
\* ASCII characters, an extended size is there in full, the size is at least 8
WellFormedAt(data, p, end) ==
  /\ p + 8 <= end
  /\ \A k \in 5..8 : data[p + k] \in 32..126
  /\ GetUint32(data, p) = 1 => p + 16 <= end
  /\ StatedSize(data, p, end) >= 8

\* boxes are the boxes from start up to the first header that is not well formed
UpToFirstMalformed(boxes, data, start, end) ==
  /\ boxes # <<>> => boxes[1].offset = start
  /\ \A k \in 1..Len(boxes) :
       /\ WellFormedAt(data, boxes[k].offset, end)
       /\ boxes[k].size = StatedSize(data, boxes[k].offset, end)
       /\ boxes[k].boxType = SubSeq(data, boxes[k].offset + 5, boxes[k].offset + 8)
       /\ k < Len(boxes) => boxes[k + 1].offset = boxes[k].offset + boxes[k].size
  /\ ~WellFormedAt(data,
                   IF boxes = <<>> THEN start
                   ELSE boxes[Len(boxes)].offset + boxes[Len(boxes)].size,
                   end)

\* where the children of a box are looked for
ChildStart(data, box) == box.offset + (IF GetUint32(data, box.offset) = 1 THEN 16 ELSE 8)

\* C26: parseMP4Boxes returns, whatever the size fields, the boxes from position 0 up
\* to the first header that is not well formed, each at the end of the one before it;
\* a container's children are the boxes of its payload up to the first header that is
\* not well formed, other boxes have none; every box takes at least 8 bytes, so there
\* are at most Len(data) / 8 of them; a buffer of fewer than 8 bytes gives no box
C26_BoxesUpToFirstMalformed ==
  bpc = "parsed" =>
    /\ UpToFirstMalformed(bBoxes, bData, 0, Len(bData))
    /\ 8 * Len(bBoxes) <= Len(bData)
    /\ Len(bData) < 8 => bBoxes = <<>>
    /\ \A k \in 1..Len(bBoxes) :
         IF bBoxes[k].boxType \in CONTAINER_BOXES
         THEN UpToFirstMalformed(bBoxes[k].children, bData, ChildStart(bData, bBoxes[k]),
                                 Min(bBoxes[k].offset + bBoxes[k].size, Len(bData)))
         ELSE bBoxes[k].children = <<>>

\* a box, a container with a child, then a header whose size is below 8: two boxes
C26_Witness ==
  /\ bpc = "parsed"
  /\ Len(bBoxes) = 2
  /\ bBoxes[2].boxType = MOOV
  /\ Len(bBoxes[2].children) = 1
  /\ bBoxes[2].offset + bBoxes[2].size + 8 <= Len(bData)
  /\ GetUint32(bData, bBoxes[2].offset + bBoxes[2].size) = 4

(***************************************************************************)
(* C30                                                                     *)
(***************************************************************************)

\* C30: the resource built for an MP4 header has no chunk whose hex is greater than
\* the hex of a later MP4 header-only Blockfile file of the directory
C30_ChunksStopAtNextHeader ==
  pc = "done" =>
    \A r \in 1..Len(resources) : \A e \in 1..Len(blockfileEntries) :
      (/\ IsHeaderResource(r)
       /\ blockfileEntries[e].fileType = "mp4_header_only"
       /\ blockfileEntries[e].hex > FileHex(r, 1))
        => \A k \in 2..Len(resources[r].files) : FileHex(r, k) <= blockfileEntries[e].hex

(***************************************************************************)
(* C27                                                                     *)
(***************************************************************************)

\* is call s of startScan still on its way (its finally block has not run)
OnItsWay(s) == runs[s].pc # "ended"

\* C27: only the most recently started, non-cancelled scan writes to the store:
\* no setter (setScanProgress, setResources, setIsScanning, setScannerStep) is
\* ever called by a call of startScan after cancelCurrentScan or a later
\* startScan ran, and while the newest call is on its way and not cancelled the
\* module's abort controller is its own and the running flag is set, whatever
\* earlier calls did when they completed.
C27_OnlyCurrentScanWrites ==
  /\ \A wr \in storeWrites : ~wr.late
  /\ \A s \in 1..Len(runs) :
       (OnItsWay(s) /\ s \notin superseded)
         => (currentScanAbortController = s /\ isScanRunning)

\* an earlier call went on after its abort and has completed, while the newer
\* call, which has written to the store, is still on its way
C27_Witness ==
  \E s \in 1..Len(runs), n \in 1..Len(runs) :
    /\ s < n
    /\ s \in superseded
    /\ ~OnItsWay(s)
    /\ \E b \in runs[s].began : b.aborted
    /\ OnItsWay(n)
    /\ n \notin superseded
    /\ \E wr \in storeWrites : wr.run = n

(***************************************************************************)
(* C22                                                                     *)
(***************************************************************************)

\* the calls of startScan whose scanCacheFolder has not returned
ScansInProgress == {s \in 1..Len(runs) : InScanCacheFolder(s)}

\* C22: at any time at most one execution of scanCacheFolder is in progress,
\* also after startScan, or cancelCurrentScan and then startScan, was called
\* while a scan was still running.
C22_OneScanAtATime == Cardinality(ScansInProgress) <= 1

(***************************************************************************)
(* C23                                                                     *)
(***************************************************************************)

\* C23: once cancellation is signalled no further unit of work is started: no
\* call of startScan begins a phase of scanCacheFolder (listing of another
\* directory, detecting, grouping, thumbnails) with its signal aborted.
C23_NoWorkAfterCancel ==
  \A s \in 1..Len(runs) : \A b \in runs[s].began : ~b.aborted

(***************************************************************************)
(* C28                                                                     *)
(***************************************************************************)

\* `${label} ${resourceIdx}` and `Video ${resourceIdx} (chunked)`, for resourceIdx < 10
DisplayText(d) ==
  (IF d.label = "Image" THEN <<73, 109, 97, 103, 101>>
   ELSE IF d.label = "Video" THEN <<86, 105, 100, 101, 111>>
   ELSE IF d.label = "Audio" THEN <<65, 117, 100, 105, 111>>
   ELSE <<70, 105, 108, 101>>)
  \o <<32, 48 + d.n>>
  \o (IF d.chunked THEN <<32, 40, 99, 104, 117, 110, 107, 101, 100, 41>> ELSE <<>>)

\* a resource of the store as recoverResources reads it
AsSelected(resource) ==
  Selected(DisplayText(resource.displayName), resource.resourceType,
           [k \in 1..Len(resource.files) |-> RFile(resource.files[k].name)],
           resource.modifiedAt)

\* C28: two distinct resources of the results of one startScan, selected into
\* one recovery batch, never have the same output path, whatever the options,
\* also when the results come from several scanned directories.
C28_DistinctOutputPaths ==
  \A i \in 1..Len(store.resources), j \in 1..Len(store.resources), opts \in OptionChoices :
    i # j => OutputPath(AsSelected(store.resources[i]), opts)
               # OutputPath(AsSelected(store.resources[j]), opts)

====
